---------------------------- MODULE Spec2Model ----------------------------
(***************************************************************************)
(* Exhibition RAG system: retrieval engine (backend/rag/retriever.py),     *)
(* statistics cache, spreadsheet extraction and document synthesis         *)
(* (backend/rag/excel_loader.py), embedding and the vector store           *)
(* (backend/rag/embeddings.py), and the ingestion run                      *)
(* (backend/rag/ingest.py).                                                *)
(*                                                                         *)
(* Strings are sequences of one-character strings, so that strip, lower,   *)
(* split, substring search and join are computed as Python computes them.  *)
(* Real numbers are exact fractions: a distance d is DistNum/DistScale, a  *)
(* similarity is num/DistScale and a relevance is num/RelDen(query).       *)
(***************************************************************************)
EXTENDS Integers, Sequences, FiniteSets, TLC

VARIABLES
    collection,   \* the vector store collection: sequence of stored chunks
    op,           \* the last operation run
    query,        \* query argument of the last search / retrieve
    top_k,        \* top_k argument of the last search / retrieve
    flt,          \* filter_metadata argument of the last search
    fault,        \* which step failed inside the last call
    fetched,      \* candidate list the store returned to the last search
    results,      \* list returned by the last search
    text,         \* string returned by the last retrieve / format call
    raised,       \* TRUE when the last call let an exception escape
    now,          \* wall clock (datetime.now()), in seconds
    ticks,        \* number of clock advances so far
    stats_cache,  \* ExhibitionRetriever._stats_cache
    stats_time,   \* ExhibitionRetriever._stats_time
    stats_ret,    \* value returned by the last get_collection_statistics
    queried,      \* TRUE when the last statistics call queried the store
    force,        \* force_refresh argument of the last statistics call
    cache_age,    \* <<seconds since _stats_time>> seen by the last call
    sheet_name,   \* name of the sheet being processed
    header_row,   \* header row of the sheet being processed
    row_idx,      \* number of data rows processed so far
    row_data,     \* the data row processed last
    item_info,    \* record extracted from row_data ({} when discarded)
    item_docs,    \* documents created for the last row
    documents,    \* documents accumulated for the sheet
    texts,        \* argument of the last embed_texts call
    embeddings,   \* vectors returned by the last embed_texts call
    model_present,   \* TRUE when the model files are on disk
    embedder_loaded, \* TRUE once the EmbeddingManager singleton exists
    client,       \* the Chroma client: collections by name
    retriever,    \* "none", "ready" or "failed": the last construction
    collection_name, \* collection name argument of the last call
    run_ids,      \* ids generated by the last ingestion run
    before,       \* the collections as they were when the last call began
    grid,         \* raw rows of the sheet read last
    fault_at,     \* where the last call is made to fail (NoFault: nowhere)
    header_row_idx,  \* 0-based index of the header row chosen
    failed,       \* TRUE when the sheet took the except branch
    records,      \* records extracted from the sheet
    data_rows,    \* 0-based indices of the rows handed to extraction
    sheets_left,  \* sheets of the workbook still to process
    all_documents, \* load_all_sheets: documents of the sheets so far
    split_in,     \* argument of the last split_documents call
    split_out,    \* list returned by the last split_documents call
    build_ret,    \* value returned by the last build_vector_database call
    load_dir,     \* the data directory as the last load_documents found it
    dir_exists,   \* TRUE when the data directory exists after that call
    by_arg,       \* zone, category, author or technique of the last search_by_*
    by_query      \* query argument of the last search_by_*

searchVars == <<op, query, top_k, flt, fault, fetched, results, text, raised>>
statsVars  == <<now, ticks, stats_cache, stats_time, stats_ret, queried, force,
               cache_age>>
loaderVars == <<sheet_name, header_row, row_idx, row_data, item_info, item_docs,
                documents>>
embedVars  == <<texts, embeddings>>
storeVars  == <<model_present, embedder_loaded, client, retriever,
               collection_name, run_ids, before>>
sheetVars  == <<grid, fault_at, header_row_idx, failed, records, data_rows,
               sheets_left, all_documents>>
ingestVars == <<split_in, split_out, build_ret, load_dir, dir_exists>>
byVars == <<by_arg, by_query>>
pipelineVars == <<embedVars, storeVars, sheetVars, ingestVars, byVars>>
vars == <<collection, searchVars, statsVars, loaderVars, pipelineVars>>

----------------------------------------------------------------------------
(* Bounds of the model *)

MaxChunks == 3      \* chunks the collection may hold
MaxTopK   == 2      \* largest top_k argument tried
DistScale == 2      \* distances are multiples of 1/DistScale
MaxTicks  == 3      \* clock advances in one run
MaxRows   == 2      \* data rows of a sheet

(* Program constants *)

MaxFetch == 20      \* min(top_k * 2, 20)
CacheTTL == 300     \* statistics cache lifetime, seconds
SampleLimit == 100  \* statistics sample size
SecondsPerDay == 86400

----------------------------------------------------------------------------
(* Python string primitives *)

Min(a, b) == IF a <= b THEN a ELSE b

Whitespace == {" ", "\n", "\r"}

LowerChar(c) ==
    CASE c = "A" -> "a" [] c = "D" -> "d" [] c = "E" -> "e" [] c = "F" -> "f"
      [] c = "I" -> "i" [] c = "L" -> "l" [] c = "R" -> "r" [] c = "T" -> "t"
      [] OTHER -> c

\* str.lower()
Lower(s) == [i \in 1..Len(s) |-> LowerChar(s[i])]

RECURSIVE LStrip(_)
LStrip(s) == IF s # <<>> /\ Head(s) \in Whitespace THEN LStrip(Tail(s)) ELSE s

RECURSIVE RStrip(_)
RStrip(s) ==
    IF s # <<>> /\ s[Len(s)] \in Whitespace
    THEN RStrip(SubSeq(s, 1, Len(s) - 1)) ELSE s

\* str.strip()
Strip(s) == RStrip(LStrip(s))

\* str.split() with no separator: the maximal runs of non-whitespace
RECURSIVE SplitFrom(_, _, _)
SplitFrom(s, i, cur) ==
    IF i > Len(s)
    THEN IF cur = <<>> THEN <<>> ELSE <<cur>>
    ELSE IF s[i] \in Whitespace
         THEN IF cur = <<>> THEN SplitFrom(s, i + 1, <<>>)
              ELSE <<cur>> \o SplitFrom(s, i + 1, <<>>)
         ELSE SplitFrom(s, i + 1, Append(cur, s[i]))

Split(s) == SplitFrom(s, 1, <<>>)

\* k in s
IsSubstring(k, s) ==
    \E i \in 0..(Len(s) - Len(k)) : SubSeq(s, i + 1, i + Len(k)) = k

\* sep.join(parts)
RECURSIVE Join(_, _)
Join(parts, sep) ==
    IF parts = <<>> THEN <<>>
    ELSE IF Len(parts) = 1 THEN parts[1]
    ELSE parts[1] \o sep \o Join(Tail(parts), sep)

SeqToSet(s) == {s[i] : i \in 1..Len(s)}

----------------------------------------------------------------------------
(* The stored corpus.  Chunk i of the collection is Corpus(i): contents    *)
(* and zones cycle with different periods.  The second content is padded   *)
(* with line breaks as the built-in test documents of ingest.py are.       *)

ContentList ==
    << <<"r","f","i","d"," ","t","a","g">>,
       <<"\n","L","E","D"," ","A","r","t","\n">>,
       <<"r","e","d"," ","l","e","d">> >>

ZoneList == <<"A", "B">>

Corpus(i) ==
    [document |-> ContentList[((i - 1) % Len(ContentList)) + 1],
     metadata |-> [zone      |-> ZoneList[((i - 1) % Len(ZoneList)) + 1],
                   item_name |-> <<"item", i>>,
                   category  |-> IF i % 3 = 0 THEN "" ELSE "art",
                   authors   |-> IF i % 2 = 0 THEN "" ELSE "guo",
                   type      |-> IF i % 2 = 0 THEN "detailed_info"
                                 ELSE "basic_info"]]

Queries ==
    { <<>>,
      <<"R","F","I","D">>,
      <<"l","e","d"," ","a","r">>,
      <<"t","a","g"," "," ","t","a","g"," ","r","e","d">> }

NoFilter == [kind |-> "none", zone |-> ""]
ZoneEq(z) == [kind |-> "zone_eq", zone |-> z]
Filters == {NoFilter} \cup {ZoneEq(z) : z \in SeqToSet(ZoneList)}

\* cosine distance ranges over [0, 2]
Distances == 0..(2 * DistScale)

Faults == {"none", "embed", "store"}

\* the distances the store may report for the chunks (read only when the
\* query reaches the store)
DistanceChoices(coll, f) ==
    IF f = "none" THEN [1..Len(coll) -> Distances] ELSE {<<>>}

----------------------------------------------------------------------------
(* The vector store (external): collection.query *)

Matches(chunk, where) ==
    where.kind = "none" \/ chunk.metadata.zone = where.zone

\* indices of the matching chunks, nearest first (ties in index order)
RECURSIVE InsertByDistance(_, _, _)
InsertByDistance(i, sorted, dist) ==
    IF sorted = <<>> THEN <<i>>
    ELSE IF dist[Head(sorted)] <= dist[i]
         THEN <<Head(sorted)>> \o InsertByDistance(i, Tail(sorted), dist)
         ELSE <<i>> \o sorted

RECURSIVE NearestFrom(_, _, _, _)
NearestFrom(coll, where, dist, i) ==
    IF i = 0 THEN <<>>
    ELSE LET rest == NearestFrom(coll, where, dist, i - 1)
         IN  IF Matches(coll[i], where)
             THEN InsertByDistance(i, rest, dist) ELSE rest

\* mutant: the store hands back every matching chunk
StoreQueryUnlimited(coll, where, n_results, dist) ==
    LET order == NearestFrom(coll, where, dist, Len(coll))
    IN  [j \in 1..Len(order) |-> [document |-> coll[order[j]].document,
                                  metadata |-> coll[order[j]].metadata,
                                  distance |-> dist[order[j]]]]

StoreQuery(coll, where, n_results, dist) ==
    LET order == NearestFrom(coll, where, dist, Len(coll))
        n     == Min(n_results, Len(order))
    IN  [j \in 1..n |-> [document |-> coll[order[j]].document,
                         metadata |-> coll[order[j]].metadata,
                         distance |-> dist[order[j]]]]

----------------------------------------------------------------------------
(* ExhibitionRetriever._calculate_relevance *)

QueryKeywords(q) == SeqToSet(Split(Lower(q)))

MatchedKeywords(content, q) ==
    {k \in QueryKeywords(q) : Len(k) > 2 /\ IsSubstring(k, Lower(content))}

\* denominator of the relevance fractions of one query
RelDen(q) ==
    LET t == Cardinality(QueryKeywords(q))
    IN  10 * DistScale * (IF t = 0 THEN 1 ELSE t)

\* mutant: terms of one or two characters count as well
KeywordScoreAnyLength(content, q) ==
    LET t == Cardinality(QueryKeywords(q))
        m == Cardinality({k \in QueryKeywords(q) :
                             IsSubstring(k, Lower(content))})
    IN  IF t = 0 THEN 0
        ELSE Min(3 * m * DistScale, 3 * DistScale * t)

\* keyword_score as a numerator over RelDen(q)
KeywordScore(content, q) ==
    LET t == Cardinality(QueryKeywords(q))
        m == Cardinality(MatchedKeywords(content, q))
    IN  IF t = 0 THEN 0
        ELSE Min(3 * m * DistScale, 3 * DistScale * t)

\* similarity is a numerator over DistScale
CalculateRelevance(content, q, similarity) ==
    LET t     == Cardinality(QueryKeywords(q))
        tt    == IF t = 0 THEN 1 ELSE t
        base  == 5 * tt * similarity
        type_ == 2 * DistScale * tt
    IN  Min(base + KeywordScore(content, q) + type_, RelDen(q))

\* mutant: the clamp for distances above 1 is missing
SimilarityScoreUnclamped(distance) == DistScale - distance

\* similarity_score = 1.0 - distance if distance <= 1.0 else 0.0
SimilarityScore(distance) ==
    IF distance <= DistScale THEN DistScale - distance ELSE 0

----------------------------------------------------------------------------
(* ExhibitionRetriever._generate_explanation *)

SimilarityTier(similarity) ==
    IF 5 * similarity > 4 * DistScale THEN "highly relevant"
    ELSE IF 5 * similarity > 3 * DistScale THEN "fairly relevant"
    ELSE IF 5 * similarity > 2 * DistScale THEN "somewhat relevant"
    ELSE "weakly relevant"

GenerateExplanation(result, q, rank) ==
    <<"rank ", ToString(rank), SimilarityTier(result.similarity)>>
    \o (IF result.category # "" THEN <<"category ", result.category>> ELSE <<>>)
    \o (IF \E k \in SeqToSet(Split(Lower(q))) :
              Len(k) > 2 /\ IsSubstring(k, Lower(result.content))
        THEN <<"contains query keyword">> ELSE <<>>)

----------------------------------------------------------------------------
(* ExhibitionRetriever._process_results *)

BuildResult(cand, i, q) ==
    [rank        |-> i,
     content     |-> cand.document,
     metadata    |-> cand.metadata,
     similarity  |-> SimilarityScore(cand.distance),
     distance    |-> cand.distance,
     relevance   |-> CalculateRelevance(cand.document, q,
                                        SimilarityScore(cand.distance)),
     category    |-> cand.metadata.category,
     zone        |-> cand.metadata.zone,
     explanation |-> <<>>]

\* list.sort(key=relevance, reverse=True): stable, equal keys keep their order
RECURSIVE InsertByRelevance(_, _)
InsertByRelevance(r, sorted) ==
    IF sorted = <<>> THEN <<r>>
    ELSE IF Head(sorted).relevance >= r.relevance
         THEN <<Head(sorted)>> \o InsertByRelevance(r, Tail(sorted))
         ELSE <<r>> \o sorted

\* mutant: candidates stay in vector-distance order
SortByDistanceOnly(rs) == rs

RECURSIVE SortByRelevance(_)
SortByRelevance(rs) ==
    IF rs = <<>> THEN <<>>
    ELSE InsertByRelevance(rs[Len(rs)],
                           SortByRelevance(SubSeq(rs, 1, Len(rs) - 1)))

\* mutant: the slice is missing
TruncateNothing(rs, k) == rs

\* processed_results[:top_k]
Truncate(rs, k) == SubSeq(rs, 1, Min(k, Len(rs)))

ProcessResults(cands, q, k) ==
    IF cands = <<>> THEN <<>>
    ELSE LET built  == [i \in 1..Len(cands) |-> BuildResult(cands[i], i, q)]
             sorted == SortByRelevance(built)
             kept   == Truncate(sorted, k)
         IN  [p \in 1..Len(kept) |->
                 [kept[p] EXCEPT !.explanation =
                                     GenerateExplanation(kept[p], q, p)]]

----------------------------------------------------------------------------
(* ExhibitionRetriever.search *)

\* the body of the try block: exc is TRUE when a step raised
SearchBody(coll, q, k, where, f, dist) ==
    IF f = "embed"
    THEN [exc |-> TRUE, fetched |-> <<>>, value |-> <<>>]
    ELSE LET n_results == Min(k * 2, MaxFetch)
         IN  IF f = "store"
             THEN [exc |-> TRUE, fetched |-> <<>>, value |-> <<>>]
             ELSE LET cands == StoreQuery(coll, where, n_results, dist)
                  IN  [exc |-> FALSE, fetched |-> cands,
                       value |-> ProcessResults(cands, q, k)]

\* mutant: no handler around the body
SearchCallUncaught(coll, q, k, where, f, dist) ==
    LET body == SearchBody(coll, q, k, where, f, dist)
    IN  [raised |-> body.exc, fetched |-> body.fetched, value |-> body.value]

\* except Exception: return []
SearchCall(coll, q, k, where, f, dist) ==
    LET body == SearchBody(coll, q, k, where, f, dist)
    IN  IF body.exc
        THEN [raised |-> FALSE, fetched |-> body.fetched, value |-> <<>>]
        ELSE [raised |-> FALSE, fetched |-> body.fetched, value |-> body.value]

----------------------------------------------------------------------------
(* Retriever.retrieve *)

ParagraphBreak == <<"\n", "\n">>

\* mutant: contents are joined as stored
RECURSIVE RetrieveTextsUnstripped(_)
RetrieveTextsUnstripped(rs) ==
    IF rs = <<>> THEN <<>>
    ELSE <<Head(rs).content>> \o RetrieveTextsUnstripped(Tail(rs))

\* the stripped contents that are not empty, in result order
RECURSIVE RetrieveTexts(_)
RetrieveTexts(rs) ==
    IF rs = <<>> THEN <<>>
    ELSE LET content == Strip(Head(rs).content)
         IN  (IF content # <<>> THEN <<content>> ELSE <<>>)
             \o RetrieveTexts(Tail(rs))

\* mutant: an empty result list is reported as a message
RetrieveCallWithMessage(coll, q, k, f, dist) ==
    LET s == SearchCall(coll, q, k, NoFilter, f, dist)
    IN  [raised |-> FALSE, fetched |-> s.fetched, results |-> s.value,
         value |-> IF s.value = <<>> THEN <<"retrieval failed">>
                   ELSE Join(RetrieveTexts(s.value), ParagraphBreak)]

RetrieveCall(coll, q, k, f, dist) ==
    LET s == SearchCall(coll, q, k, NoFilter, f, dist)
    IN  IF s.raised
        THEN [raised |-> TRUE, fetched |-> s.fetched, results |-> <<>>,
              value |-> <<>>]
        ELSE [raised |-> FALSE, fetched |-> s.fetched, results |-> s.value,
              value |-> Join(RetrieveTexts(s.value), ParagraphBreak)]

----------------------------------------------------------------------------
(* ExhibitionRetriever.format_results_for_display *)

DisplayLimit == 150

NoResultsText(q) == <<"no results for '">> \o q \o <<"'.">>

ContentSummary(content) ==
    IF Len(content) > DisplayLimit
    THEN SubSeq(content, 1, DisplayLimit) \o <<"...">>
    ELSE content

RECURSIVE DisplayEntries(_, _)
DisplayEntries(rs, i) ==
    IF i > Len(rs) THEN <<>>
    ELSE <<"\n[", ToString(i), "] ">> \o rs[i].metadata.item_name
         \o <<"\n   similarity: ", ToString(rs[i].similarity), "/",
              ToString(DistScale), " - ">> \o rs[i].explanation
         \o <<"\n   category: ", rs[i].category>>
         \o <<"\n   zone: ", rs[i].zone>>
         \o <<"\n   content: ">> \o ContentSummary(rs[i].content)
         \o DisplayEntries(rs, i + 1)

\* mutant: the empty list is formatted like any other
FormatResultsAlwaysListing(rs, q) ==
    <<"results for '">> \o q \o <<"'", "\n====">>
    \o DisplayEntries(rs, 1)
    \o <<"\n\ntotal ", ToString(Len(rs))>>

FormatResultsForDisplay(rs, q) ==
    IF rs = <<>> THEN NoResultsText(q)
    ELSE <<"results for '">> \o q \o <<"'", "\n====">>
         \o DisplayEntries(rs, 1)
         \o <<"\n\ntotal ", ToString(Len(rs))>>

----------------------------------------------------------------------------
(* ExhibitionRetriever.get_collection_statistics *)

NoStats == [kind |-> "none"]

\* timedelta.seconds: the seconds field of the normalised difference, which
\* leaves out whole days
TimedeltaSeconds(delta) == delta % SecondsPerDay

\* the metadatas the dummy query returns: min(100, count) stored chunks
StatsSample(coll) ==
    [j \in 1..Min(SampleLimit, Len(coll)) |-> coll[j].metadata]

TypeCount(sample, ty) ==
    Cardinality({j \in 1..Len(sample) : sample[j].type = ty})

CategoryCount(sample, c) ==
    Cardinality({j \in 1..Len(sample) : sample[j].category = c})

ComputeStats(coll, t) ==
    LET sample == StatsSample(coll)
        types  == {sample[j].type : j \in 1..Len(sample)}
        cats   == {sample[j].category : j \in 1..Len(sample)} \ {""}
    IN  [kind            |-> "stats",
         total_documents |-> Len(coll),
         last_updated    |-> t,
         document_types  |-> [ty \in types |-> TypeCount(sample, ty)],
         categories      |-> [c \in cats |-> CategoryCount(sample, c)],
         zones           |-> {sample[j].zone : j \in 1..Len(sample)} \ {""},
         authors         |-> {sample[j].authors : j \in 1..Len(sample)} \ {""},
         sample_size     |-> Len(sample)]

ErrorStats(coll, t) ==
    [kind |-> "error", total_documents |-> Len(coll), last_updated |-> t]

\* the cache test at the top of the call
CacheIsFresh(cache, ctime, t, force_refresh) ==
    /\ ~force_refresh
    /\ cache.kind # "none"
    /\ ctime # <<>>
    /\ TimedeltaSeconds(t - ctime[1]) < CacheTTL

\* the sample query raises when the store fails, and the store rejects a
\* request for n_results = min(100, count) = 0 results
SampleQueryFails(f, coll) == f = "query" \/ Min(SampleLimit, Len(coll)) = 0

\* mutant: force_refresh does not bypass the cache
StatsCallIgnoringForce(cache, ctime, t, force_refresh, f, coll) ==
    IF CacheIsFresh(cache, ctime, t, FALSE)
    THEN [ret |-> cache, cache |-> cache, time |-> ctime, queried |-> FALSE]
    ELSE IF SampleQueryFails(f, coll)
         THEN [ret |-> ErrorStats(coll, t), cache |-> cache, time |-> ctime,
               queried |-> TRUE]
         ELSE [ret |-> ComputeStats(coll, t), cache |-> ComputeStats(coll, t),
               time |-> <<t>>, queried |-> TRUE]

\* mutant: the error dictionary is cached like a result
StatsCallCachingErrors(cache, ctime, t, force_refresh, f, coll) ==
    IF CacheIsFresh(cache, ctime, t, force_refresh)
    THEN [ret |-> cache, cache |-> cache, time |-> ctime, queried |-> FALSE]
    ELSE IF SampleQueryFails(f, coll)
         THEN [ret |-> ErrorStats(coll, t), cache |-> ErrorStats(coll, t),
               time |-> <<t>>, queried |-> TRUE]
         ELSE [ret |-> ComputeStats(coll, t), cache |-> ComputeStats(coll, t),
               time |-> <<t>>, queried |-> TRUE]

StatsCall(cache, ctime, t, force_refresh, f, coll) ==
    IF CacheIsFresh(cache, ctime, t, force_refresh)
    THEN [ret |-> cache, cache |-> cache, time |-> ctime, queried |-> FALSE]
    ELSE IF SampleQueryFails(f, coll)
         THEN [ret |-> ErrorStats(coll, t), cache |-> cache, time |-> ctime,
               queried |-> TRUE]
         ELSE [ret |-> ComputeStats(coll, t), cache |-> ComputeStats(coll, t),
               time |-> <<t>>, queried |-> TRUE]

StatsFaults == {"none", "query"}

\* amounts by which the wall clock advances between calls
ClockSteps == {1, CacheTTL - 1, SecondsPerDay}

StatsInit ==
    /\ now = 0
    /\ ticks = 0
    /\ stats_cache = NoStats
    /\ stats_time = <<>>
    /\ stats_ret = NoStats
    /\ queried = FALSE
    /\ force = FALSE
    /\ cache_age = <<>>

LoaderInit ==
    /\ sheet_name = <<>>
    /\ header_row = <<>>
    /\ row_idx = 0
    /\ row_data = <<>>
    /\ item_info = <<>>
    /\ item_docs = <<>>
    /\ documents = <<>>

SearchInit ==
    /\ op = "idle"
    /\ query = <<>>
    /\ top_k = 1
    /\ flt = NoFilter
    /\ fault = "none"
    /\ fetched = <<>>
    /\ results = <<>>
    /\ text = <<>>
    /\ raised = FALSE

----------------------------------------------------------------------------
(* Retrieval: the state machine.  Calls are synchronous and sequential     *)
(* (single-threaded): a call runs from the idle state, its arguments and   *)
(* return value are recorded, and Return hands control back to the caller. *)

\* no sheet read, nothing embedded, no collection, no retriever yet
NoFault == [kind |-> "none"]

EmbedInit ==
    /\ texts = <<>>
    /\ embeddings = <<>>

StoreInit ==
    /\ embedder_loaded = FALSE
    /\ client = <<>>
    /\ retriever = "none"
    /\ collection_name = ""
    /\ run_ids = <<>>
    /\ before = <<>>

SheetInit ==
    /\ grid = <<>>
    /\ fault_at = NoFault
    /\ header_row_idx = 1
    /\ failed = FALSE
    /\ records = <<>>
    /\ data_rows = <<>>
    /\ sheets_left = <<>>
    /\ all_documents = <<>>

NoReturn == [ok |-> FALSE, status |-> "none", raised |-> FALSE]

NoDirectory ==
    [exists |-> FALSE, workbook |-> FALSE, other |-> <<>>, stray |-> FALSE]

IngestInit ==
    /\ split_in = <<>>
    /\ split_out = <<>>
    /\ build_ret = NoReturn
    /\ load_dir = NoDirectory
    /\ dir_exists = FALSE
    /\ by_arg = ""
    /\ by_query = <<>>

Init ==
    /\ collection = <<>>
    /\ SearchInit
    /\ StatsInit
    /\ LoaderInit
    /\ EmbedInit
    /\ StoreInit
    /\ model_present = TRUE
    /\ SheetInit
    /\ IngestInit

\* collection.add of the next chunk (ingest.py)
AddChunk ==
    /\ op = "idle"
    /\ Len(collection) < MaxChunks
    /\ collection' = Append(collection, Corpus(Len(collection) + 1))
    /\ UNCHANGED <<searchVars, statsVars, loaderVars, pipelineVars>>

Search ==
    /\ op = "idle"
    /\ \E q \in Queries, k \in 1..MaxTopK, where \in Filters, f \in Faults :
       \E dist \in DistanceChoices(collection, f) :
          LET r == SearchCall(collection, q, k, where, f, dist)
          IN  /\ op' = "search"
              /\ query' = q
              /\ top_k' = k
              /\ flt' = where
              /\ fault' = f
              /\ fetched' = r.fetched
              /\ results' = r.value
              /\ raised' = r.raised
              /\ UNCHANGED <<text, collection, statsVars, loaderVars,
                             pipelineVars>>

Retrieve ==
    /\ op = "idle"
    /\ \E q \in Queries, k \in 1..MaxTopK, f \in Faults :
       \E dist \in DistanceChoices(collection, f) :
          LET r == RetrieveCall(collection, q, k, f, dist)
          IN  /\ op' = "retrieve"
              /\ query' = q
              /\ top_k' = k
              /\ flt' = NoFilter
              /\ fault' = f
              /\ fetched' = r.fetched
              /\ results' = r.results
              /\ text' = r.value
              /\ raised' = r.raised
              /\ UNCHANGED <<collection, statsVars, loaderVars, pipelineVars>>

\* format_results_for_display(results, query) on the list search returned
FormatResults ==
    /\ op = "search"
    /\ ~raised
    /\ op' = "format"
    /\ text' = FormatResultsForDisplay(results, query)
    /\ UNCHANGED <<query, top_k, flt, fault, fetched, results, raised,
                   collection, statsVars, loaderVars,
                   pipelineVars>>

\* the caller drops the returned value
Return ==
    /\ op # "idle"
    /\ op' = "idle"
    /\ query' = <<>>
    /\ top_k' = 1
    /\ flt' = NoFilter
    /\ fault' = "none"
    /\ fetched' = <<>>
    /\ results' = <<>>
    /\ text' = <<>>
    /\ raised' = FALSE
    /\ stats_ret' = NoStats
    /\ queried' = FALSE
    /\ force' = FALSE
    /\ cache_age' = <<>>
    /\ UNCHANGED <<collection, now, ticks, stats_cache, stats_time, loaderVars,
                   pipelineVars>>

Next == AddChunk \/ Search \/ Retrieve \/ FormatResults \/ Return

Spec == Init /\ [][Next]_vars

----------------------------------------------------------------------------
(* Statistics cache: the state machine *)

\* the wall clock advances between calls
Tick ==
    /\ op = "idle"
    /\ ticks < MaxTicks
    /\ \E d \in ClockSteps : now' = now + d
    /\ ticks' = ticks + 1
    /\ UNCHANGED <<collection, searchVars, stats_cache, stats_time, stats_ret,
                   queried, force, cache_age, loaderVars,
                   pipelineVars>>

GetCollectionStatistics ==
    /\ op = "idle"
    /\ \E force_refresh \in BOOLEAN, f \in StatsFaults :
          LET r == StatsCall(stats_cache, stats_time, now, force_refresh, f,
                             collection)
          IN  /\ op' = "stats"
              /\ force' = force_refresh
              /\ fault' = (IF r.ret.kind = "error" THEN "query" ELSE "none")
              /\ cache_age' = (IF stats_time = <<>> THEN <<>>
                               ELSE <<now - stats_time[1]>>)
              /\ stats_ret' = r.ret
              /\ queried' = r.queried
              /\ stats_cache' = r.cache
              /\ stats_time' = r.time
    /\ UNCHANGED <<collection, query, top_k, flt, fetched, results, text,
                   raised, now, ticks, loaderVars,
                   pipelineVars>>

NextStats == AddChunk \/ Tick \/ GetCollectionStatistics \/ Return

SpecStats == Init /\ [][NextStats]_vars

----------------------------------------------------------------------------
(* Properties of search, retrieve and format_results_for_display *)

SearchReturned == op \in {"search", "retrieve", "format"}

\* relevance of the i-th fetched candidate for the recorded query
FetchedRelevance(i) ==
    CalculateRelevance(fetched[i].document, query,
                       SimilarityScore(fetched[i].distance))

\* C1: search returns a list of at most top_k results, for every query,
\* top_k >= 1, filter and candidate set.
C1_AtMostTopK == SearchReturned => Len(results) <= top_k

C1_Witness ==
    /\ op = "search"
    /\ fault = "none"
    /\ flt # NoFilter
    /\ Len(fetched) > top_k
    /\ Len(results) = top_k

\* C2: the returned list is ordered by relevance, non-increasing, and holds
\* the top_k highest-relevance candidates of those fetched: every result is a
\* fetched candidate (its rank field is the candidate's position), and no
\* fetched candidate left out has a relevance above that of a returned one.
C2_SortedTopK ==
    (SearchReturned /\ fault = "none") =>
        /\ Len(results) = Min(top_k, Len(fetched))
        /\ \A p, r \in 1..Len(results) :
              /\ p < r => results[p].relevance >= results[r].relevance
              /\ p # r => results[p].rank # results[r].rank
        /\ \A p \in 1..Len(results) :
              /\ results[p].rank \in 1..Len(fetched)
              /\ results[p].content = fetched[results[p].rank].document
              /\ results[p].relevance = FetchedRelevance(results[p].rank)
        /\ \A i \in 1..Len(fetched) :
              \/ \E p \in 1..Len(results) : results[p].rank = i
              \/ \A p \in 1..Len(results) :
                    results[p].relevance >= FetchedRelevance(i)

\* re-ranking reordered the candidates relative to vector distance, and a
\* candidate nearer than a returned one was left out
C2_Witness ==
    /\ op = "search"
    /\ fault = "none"
    /\ Len(results) = 2
    /\ results[1].similarity < results[2].similarity
    /\ results[1].relevance > results[2].relevance
    /\ Len(fetched) > 2
    /\ \E i \in 1..Len(fetched) :
          /\ \A p \in 1..Len(results) : results[p].rank # i
          /\ fetched[i].distance < fetched[results[1].rank].distance

\* C3: every returned result has similarity in [0,1] and relevance in [0,1];
\* similarity is 1 - d, and 0 when d > 1 (d a cosine distance).
C3_ScoresInUnitInterval ==
    SearchReturned =>
        \A p \in 1..Len(results) :
            /\ 0 <= results[p].similarity
            /\ results[p].similarity <= DistScale
            /\ 0 <= results[p].relevance
            /\ results[p].relevance <= RelDen(query)
            /\ results[p].distance <= DistScale
                  => results[p].similarity = DistScale - results[p].distance
            /\ results[p].distance > DistScale => results[p].similarity = 0

C3_Witness ==
    /\ op = "search"
    /\ Len(results) = 2
    /\ results[1].distance = 0
    /\ results[1].relevance = RelDen(query)
    /\ results[2].distance = 2 * DistScale
    /\ results[2].similarity = 0

\* C4: search never raises; when the embedding step or the store query
\* fails it returns an empty list.
C4_SearchNeverRaises ==
    op = "search" => (~raised /\ (fault # "none" => results = <<>>))

C4_Witness ==
    /\ op = "search"
    /\ fault = "embed"
    /\ Len(collection) = MaxChunks
    /\ results = <<>>

\* C5 (as claimed): with an empty candidate set and no failure, search
\* yields the "no results" sentinel text rather than an empty list.
C5_Original ==
    (op = "search" /\ fault = "none" /\ fetched = <<>>) =>
        results = NoResultsText(query)

\* C5 (amended): with an empty candidate set and no failure, search returns
\* the empty list; the sentinel text is what format_results_for_display
\* returns for an empty list, and only for an empty list.
C5_EmptyListThenSentinel ==
    /\ (op = "search" /\ fault = "none" /\ fetched = <<>>) => results = <<>>
    /\ op = "format" => (results = <<>> <=> text = NoResultsText(query))

C5_Witness ==
    /\ op = "format"
    /\ fault = "none"
    /\ fetched = <<>>
    /\ Len(collection) > 0
    /\ text = NoResultsText(query)

\* C6 (as claimed): when a fault occurs during retrieve, retrieve does not
\* raise and returns a non-empty descriptive text.
C6_Original ==
    (op = "retrieve" /\ fault # "none") => (~raised /\ text # <<>>)

\* C6 (amended): when a fault occurs during retrieve, retrieve does not
\* raise and returns the empty string.
C6_FaultGivesEmptyString ==
    (op = "retrieve" /\ fault # "none") => (~raised /\ text = <<>>)

C6_Witness ==
    /\ op = "retrieve"
    /\ fault = "store"
    /\ Len(collection) > 0
    /\ text = <<>>

ContentsOf(rs) == [p \in 1..Len(rs) |-> rs[p].content]

NotBlank(s) == \E i \in 1..Len(s) : s[i] \notin Whitespace

StrippedContentsOf(rs) ==
    SelectSeq([p \in 1..Len(rs) |-> Strip(rs[p].content)], NotBlank)

\* C7 (as claimed): retrieve returns the contents of all results of search,
\* in ranked order, joined by a double line break; at most top_k segments.
C7_Original ==
    op = "retrieve" =>
        /\ text = Join(ContentsOf(results), ParagraphBreak)
        /\ Len(ContentsOf(results)) <= top_k

\* C7 (amended): retrieve returns the contents of the results of search with
\* leading and trailing whitespace stripped, leaving out the contents that
\* are empty after stripping, in ranked order, joined by a double line
\* break; at most top_k segments are joined.
C7_JoinsStrippedContents ==
    op = "retrieve" =>
        /\ text = Join(StrippedContentsOf(results), ParagraphBreak)
        /\ Len(StrippedContentsOf(results)) <= top_k

C7_Witness ==
    /\ op = "retrieve"
    /\ fault = "none"
    /\ Len(results) = 2
    /\ Strip(results[1].content) # results[1].content
    /\ text = Strip(results[1].content) \o ParagraphBreak \o results[2].content

----------------------------------------------------------------------------
(* Properties of the statistics cache *)

\* C8 (as claimed): once a result is cached at time t, a later call with
\* force_refresh = False returns the cached result without querying the store
\* when less than 300 seconds have passed since t, and recomputes from the
\* store when 300 seconds or more have passed, whatever the elapsed time.
C8_Original ==
    (op = "stats" /\ ~force /\ cache_age # <<>>) =>
        /\ cache_age[1] < CacheTTL => (~queried /\ stats_ret = stats_cache)
        /\ cache_age[1] >= CacheTTL => queried

\* C9: force_refresh = True always recomputes from the store, whatever the
\* age of the cached value, and on success replaces the cached value and its
\* timestamp; the cache changes only inside a get_collection_statistics call.
C9_ForceRefreshRecomputes ==
    /\ [](  (op = "stats" /\ force) =>
              /\ queried
              /\ fault = "none" =>
                    /\ stats_ret.kind = "stats"
                    /\ stats_ret.last_updated = now
                    /\ stats_ret.total_documents = Len(collection)
                    /\ stats_cache = stats_ret
                    /\ stats_time = <<now>>)
    /\ [][ (stats_cache' # stats_cache \/ stats_time' # stats_time)
              => (op = "idle" /\ op' = "stats") ]_vars

\* a forced call made one second after the value was cached recomputes it
C9_Witness ==
    /\ op = "stats"
    /\ force
    /\ cache_age = <<1>>
    /\ queried
    /\ fault = "none"
    /\ stats_time = <<now>>
    /\ stats_cache.last_updated = now
    /\ Len(collection) > 0

----------------------------------------------------------------------------
(* ComplexExhibitionExcelLoader: cells, labels and sheets.  A Chinese       *)
(* character is written as one element, its pinyin syllable.                *)

ZoneLabel       == <<"zhan", "qu">>                    \* zone
ItemNameLabel   == <<"zuo", "pin", "ming", "cheng">>   \* item name
AuthorLabel     == <<"she", "ji", "zuo", "zhe">>       \* design author
SeqLabel        == <<"xu", "hao">>                     \* sequence number
SeqPointLabel   == <<"xu", "hao", "/", "dian", "wei">>
TagLabel        == <<"lei", "bie", "biao", "qian">>
SubCategoryLabel == <<"lei", "bie">>
FormLabel       == <<"cheng", "xian", "xing", "shi">>
InstructorLabel == <<"zhi", "dao", "lao", "shi">>
TimeLabel       == <<"chuang", "zuo", "shi", "jian">>
BriefLabel      == <<"zuo", "pin", "miao", "shu", "(", "jian", ")">>
MotivationLabel == <<"she", "ji", "dong", "ji">>
InspirationLabel == <<"ling", "gan", "lai", "yuan">>
PurposeLabel    == <<"she", "ji", "mu", "di", "/", "yi", "yi">>
ProcessLabel    == <<"chuang", "zuo", "li", "cheng">>
DifficultyLabel == <<"mian", "lin", "de", "kun", "nan">>
ConceptLabel    == <<"she", "ji", "li", "nian", "/", "feng", "ge">>
VisualLabel     == <<"shi", "jue", "xing", "shi", "yu", "yan">>
TechniqueLabel  == <<"ji", "shu", "te", "dian">>
EffectLabel     == <<"yu", "qi", "xiao", "guo">>
Unknown         == <<"wei", "zhi">>                    \* the word "unknown"
NoDescription   == <<"zan", "wu", "miao", "shu">>

SheetNameKey == <<"sheet_name">>
CategoryKey  == <<"category">>

\* the labels of the detailed_info fields, in the order of detail_fields
DetailLabels ==
    <<MotivationLabel, InspirationLabel, PurposeLabel, ProcessLabel,
      DifficultyLabel>>

\* header rows of the sheets tried: a plain one, one without a zone column,
\* one with a padded and repeated item-name label, one whose item-name label
\* holds a line break
Headers ==
    { <<ZoneLabel, ItemNameLabel, TechniqueLabel>>,
      <<ItemNameLabel, MotivationLabel, ConceptLabel>>,
      <<ZoneLabel, <<" ">> \o ItemNameLabel \o <<"\n">>, ItemNameLabel>>,
      <<ZoneLabel, <<"zuo", "pin", "\n", "ming", "cheng">>, TechniqueLabel>> }

\* cell values: empty, blank, a padded value, the word "unknown"
CellValues == { <<>>, <<" ">>, <<" ", "v", " ">>, Unknown }

\* data rows: as wide as the header, or one cell short (ragged)
RowsFor(header) ==
    UNION { [1..n -> CellValues] : n \in {Len(header) - 1, Len(header)} }

IndustrialSheet == <<"gong", "ye", "she", "ji", "lei">>
SheetNames == { IndustrialSheet, <<"S", "1">> }

----------------------------------------------------------------------------
(* dict helpers *)

EmptyDict == <<>>

HasKey(d, k) == k \in DOMAIN d

\* d.get(k, default)
Get(d, k, default) == IF HasKey(d, k) THEN d[k] ELSE default

\* d[k] = v
Put(d, k, v) == [x \in (DOMAIN d) \cup {k} |-> IF x = k THEN v ELSE d[x]]

\* s.replace(old, new) for a one-character old
RECURSIVE ReplaceChar(_, _, _)
ReplaceChar(s, old, new) ==
    IF s = <<>> THEN <<>>
    ELSE (IF Head(s) = old THEN new ELSE <<Head(s)>>)
         \o ReplaceChar(Tail(s), old, new)

\* bool(str(cell).strip())
IsNonBlank(cell) == Strip(cell) # <<>>

----------------------------------------------------------------------------
(* ComplexExhibitionExcelLoader._map_sheet_to_category *)

CategoryMapKeys ==
    << <<"gong", "ye", "she", "ji", "lei">>,
       <<"huan", "jing", "she", "ji", "lei">>,
       <<"yi", "shu", "yu", "ke", "ji", "lei">> >>

\* the mapped value is the key without its last character
CategoryMapValue(key) == SubSeq(key, 1, Len(key) - 1)

RECURSIVE FirstKeyIn(_, _)
FirstKeyIn(name, i) ==
    IF i > Len(CategoryMapKeys) THEN 0
    ELSE IF IsSubstring(CategoryMapKeys[i], name) THEN i
    ELSE FirstKeyIn(name, i + 1)

MapSheetToCategory(name) ==
    IF FirstKeyIn(name, 1) # 0
    THEN CategoryMapValue(CategoryMapKeys[FirstKeyIn(name, 1)])
    ELSE IF IsSubstring(<<"gong", "ye">>, name)
         THEN CategoryMapValue(CategoryMapKeys[1])
    ELSE IF IsSubstring(<<"huan", "jing">>, name)
         THEN CategoryMapValue(CategoryMapKeys[2])
    ELSE IF IsSubstring(<<"yi", "shu">>, name) \/ IsSubstring(<<"ke", "ji">>, name)
         THEN CategoryMapValue(CategoryMapKeys[3])
    ELSE Strip(ReplaceChar(name, "lei", <<>>))

----------------------------------------------------------------------------
(* ComplexExhibitionExcelLoader._extract_item_info *)

\* mutant: the label is trimmed and nothing else
CleanColumnNameTrimOnly(header) == Strip(header)

\* str(header).strip().replace('\n', ' ').replace('\r', '')
CleanColumnName(header) ==
    ReplaceChar(ReplaceChar(Strip(header), "\n", <<" ">>), "\r", <<>>)

\* mutant: a label met again keeps the value it already has
RECURSIVE MapFieldsFirstWins(_, _, _)
MapFieldsFirstWins(header, row, i) ==
    IF i = 0 THEN EmptyDict
    ELSE LET sofar == MapFieldsFirstWins(header, row, i - 1)
         IN  IF /\ IsNonBlank(header[i]) /\ i <= Len(row) /\ IsNonBlank(row[i])
                /\ ~HasKey(sofar, CleanColumnName(header[i]))
             THEN Put(sofar, CleanColumnName(header[i]), Strip(row[i]))
             ELSE sofar

\* the loop over the header row: later columns overwrite earlier ones
RECURSIVE MapFields(_, _, _)
MapFields(header, row, i) ==
    IF i = 0 THEN EmptyDict
    ELSE LET sofar == MapFields(header, row, i - 1)
         IN  IF IsNonBlank(header[i]) /\ i <= Len(row) /\ IsNonBlank(row[i])
             THEN Put(sofar, CleanColumnName(header[i]), Strip(row[i]))
             ELSE sofar

\* the zone falls back to the first cell of the row
WithZoneFallback(info, row) ==
    IF ~HasKey(info, ZoneLabel) /\ Len(row) > 0 /\ row[1] # <<>>
    THEN Put(info, ZoneLabel, Strip(row[1]))
    ELSE info

\* mutant: the check for an item name is missing
ExtractItemInfoUnchecked(row, header, sheet) ==
    LET mapped == MapFields(header, row, Len(header))
    IN  IF mapped = EmptyDict THEN EmptyDict
        ELSE WithZoneFallback(
                 Put(Put(mapped, SheetNameKey, sheet),
                     CategoryKey, MapSheetToCategory(sheet)), row)

ExtractItemInfo(row, header, sheet) ==
    LET mapped == MapFields(header, row, Len(header))
    IN  IF mapped = EmptyDict THEN EmptyDict
        ELSE LET info == WithZoneFallback(
                             Put(Put(mapped, SheetNameKey, sheet),
                                 CategoryKey, MapSheetToCategory(sheet)), row)
             IN  IF ~HasKey(info, ItemNameLabel) \/ info[ItemNameLabel] = <<>>
                 THEN EmptyDict
                 ELSE info

----------------------------------------------------------------------------
(* ComplexExhibitionExcelLoader._create_*_doc                               *)
(* page_content is the sequence of the template's literal pieces and the    *)
(* field values; metadata keeps the keys of the source.                     *)

ItemId(info) ==
    IF Get(info, SeqPointLabel, <<>>) # <<>> THEN info[SeqPointLabel]
    ELSE Get(info, SeqLabel, <<>>)

SubCategory(info) == Get(info, TagLabel, Get(info, SubCategoryLabel, <<>>))

CreateBasicInfoDoc(info, sheet) ==
    LET item_name == Strip(Get(info, ItemNameLabel, <<>>))
    IN  IF item_name = <<>> THEN <<>>
        ELSE << [page_content |->
                   Strip(<<"\n", "[basic]", "\n", "\n", "name:">> \o item_name
                      \o <<"\n", "zone:">> \o Get(info, ZoneLabel, <<>>)
                      \o <<" ", "-", " ">> \o ItemId(info)
                      \o <<"\n", "category:">> \o Get(info, CategoryKey, <<>>)
                      \o <<" ", "/", " ">> \o SubCategory(info)
                      \o <<"\n", "form:">> \o Get(info, FormLabel, <<>>)
                      \o <<"\n", "\n", "author:">> \o Get(info, AuthorLabel, <<>>)
                      \o <<"\n", "instructor:">> \o Get(info, InstructorLabel, <<>>)
                      \o <<"\n", "time:">> \o Get(info, TimeLabel, <<>>)
                      \o <<"\n", "\n", "[brief]", "\n">>
                      \o Get(info, BriefLabel, NoDescription) \o <<"\n">>),
                 metadata |->
                   [source |-> "file_path", sheet_name |-> sheet,
                    category |-> Get(info, CategoryKey, <<>>),
                    type |-> "basic_info", item_name |-> item_name,
                    zone |-> Get(info, ZoneLabel, <<>>),
                    item_id |-> ItemId(info),
                    sub_category |-> SubCategory(info),
                    display_form |-> Get(info, FormLabel, <<>>),
                    authors |-> Get(info, AuthorLabel, <<>>),
                    instructor |-> Get(info, InstructorLabel, <<>>),
                    creation_time |-> Get(info, TimeLabel, <<>>)]] >>

\* the detail fields whose value is not blank, in order
ValidDetails(info) ==
    SelectSeq(DetailLabels, LAMBDA l : IsNonBlank(Get(info, l, <<>>)))

RECURSIVE DetailSections(_, _)
DetailSections(info, labels) ==
    IF labels = <<>> THEN <<>>
    ELSE <<"\n", "[">> \o Head(labels) \o <<"]", "\n">> \o info[Head(labels)]
         \o <<"\n">> \o DetailSections(info, Tail(labels))

CreateDetailedInfoDoc(info, sheet) ==
    IF ValidDetails(info) = <<>> THEN <<>>
    ELSE << [page_content |->
               Strip(<<"\n", "[detailed]", "\n", "\n", "name:">>
                  \o Get(info, ItemNameLabel, <<>>)
                  \o <<"\n", "zone:">> \o Get(info, ZoneLabel, <<>>)
                  \o <<" ", "-", " ">> \o ItemId(info)
                  \o <<"\n", "category:">> \o Get(info, CategoryKey, <<>>)
                  \o <<"\n">> \o DetailSections(info, ValidDetails(info))),
             metadata |->
               [source |-> "file_path", sheet_name |-> sheet,
                category |-> Get(info, CategoryKey, <<>>),
                type |-> "detailed_info",
                item_name |-> Get(info, ItemNameLabel, <<>>),
                zone |-> Get(info, ZoneLabel, <<>>),
                item_id |-> ItemId(info),
                has_details |-> TRUE,
                detail_fields |-> ValidDetails(info)]] >>

CreateDesignConceptDoc(info, sheet) ==
    LET design_concept  == Get(info, ConceptLabel, <<>>)
        visual_language == Get(info, VisualLabel, <<>>)
    IN  IF design_concept = <<>> /\ visual_language = <<>> THEN <<>>
        ELSE << [page_content |->
                   Strip(<<"\n", "[concept]", "\n", "\n", "name:">>
                      \o Get(info, ItemNameLabel, <<>>)
                      \o <<"\n", "category:">> \o Get(info, CategoryKey, <<>>)
                      \o <<"\n">>
                      \o (IF design_concept # <<>>
                          THEN <<"\n", "concept:", "\n">> \o design_concept
                               \o <<"\n">>
                          ELSE <<>>)
                      \o (IF visual_language # <<>>
                          THEN <<"\n", "visual:", "\n">> \o visual_language
                               \o <<"\n">>
                          ELSE <<>>)),
                 metadata |->
                   [source |-> "file_path", sheet_name |-> sheet,
                    category |-> Get(info, CategoryKey, <<>>),
                    type |-> "design_concept",
                    item_name |-> Get(info, ItemNameLabel, <<>>),
                    has_design_concept |-> design_concept # <<>>,
                    has_visual_language |-> visual_language # <<>>]] >>

CreateTechInfoDoc(info, sheet) ==
    LET technique       == Get(info, TechniqueLabel, <<>>)
        expected_effect == Get(info, EffectLabel, <<>>)
    IN  IF technique = <<>> /\ expected_effect = <<>> THEN <<>>
        ELSE << [page_content |->
                   Strip(<<"\n", "[tech]", "\n", "\n", "name:">>
                      \o Get(info, ItemNameLabel, <<>>)
                      \o <<"\n", "category:">> \o Get(info, CategoryKey, <<>>)
                      \o <<"\n">>
                      \o (IF technique # <<>>
                          THEN <<"\n", "technique:", "\n">> \o technique
                               \o <<"\n">>
                          ELSE <<>>)
                      \o (IF expected_effect # <<>>
                          THEN <<"\n", "effect:", "\n">> \o expected_effect
                               \o <<"\n">>
                          ELSE <<>>)),
                 metadata |->
                   [source |-> "file_path", sheet_name |-> sheet,
                    category |-> Get(info, CategoryKey, <<>>),
                    type |-> "tech_info",
                    item_name |-> Get(info, ItemNameLabel, <<>>),
                    has_technique |-> technique # <<>>,
                    has_expected_effect |-> expected_effect # <<>>]] >>

\* mutant: the technical document comes before the others
CreateDocumentsForItemTechFirst(info, sheet) ==
    LET item_name == Strip(Get(info, ItemNameLabel, <<>>))
    IN  IF item_name = <<>> \/ item_name = Unknown THEN <<>>
        ELSE CreateTechInfoDoc(info, sheet)
             \o CreateBasicInfoDoc(info, sheet)
             \o CreateDetailedInfoDoc(info, sheet)
             \o CreateDesignConceptDoc(info, sheet)

(* ComplexExhibitionExcelLoader._create_documents_for_item *)
CreateDocumentsForItem(info, sheet) ==
    LET item_name == Strip(Get(info, ItemNameLabel, <<>>))
    IN  IF item_name = <<>> \/ item_name = Unknown THEN <<>>
        ELSE CreateBasicInfoDoc(info, sheet)
             \o CreateDetailedInfoDoc(info, sheet)
             \o CreateDesignConceptDoc(info, sheet)
             \o CreateTechInfoDoc(info, sheet)

----------------------------------------------------------------------------
(* ComplexExhibitionExcelLoader._process_complex_sheet: the data rows *)

\* not any(cell and str(cell).strip() for cell in row_data)
IsBlankRow(row) == \A i \in 1..Len(row) : ~IsNonBlank(row[i])

\* the body of the loop over the data rows
RowOutcome(row, header, sheet) ==
    IF IsBlankRow(row)
    THEN [info |-> EmptyDict, docs |-> <<>>]
    ELSE LET info == ExtractItemInfo(row, header, sheet)
         IN  IF info # EmptyDict
             THEN [info |-> info, docs |-> CreateDocumentsForItem(info, sheet)]
             ELSE [info |-> EmptyDict, docs |-> <<>>]

\* a sheet is opened: its name and its header row are known
OpenSheet ==
    /\ op = "idle"
    /\ header_row = <<>>
    /\ \E name \in SheetNames, header \in Headers :
          /\ sheet_name' = name
          /\ header_row' = header
    /\ op' = "sheet"
    /\ UNCHANGED <<collection, query, top_k, flt, fault, fetched, results,
                   text, raised, statsVars, row_idx, row_data, item_info,
                   item_docs, documents,
                   pipelineVars>>

ProcessRow ==
    /\ op \in {"sheet", "row"}
    /\ row_idx < MaxRows
    /\ \E row \in RowsFor(header_row) :
          LET r == RowOutcome(row, header_row, sheet_name)
          IN  /\ row_data' = row
              /\ item_info' = r.info
              /\ item_docs' = r.docs
              /\ documents' = documents \o r.docs
    /\ row_idx' = row_idx + 1
    /\ op' = "row"
    /\ UNCHANGED <<collection, query, top_k, flt, fault, fetched, results,
                   text, raised, statsVars, sheet_name, header_row,
                   pipelineVars>>

NextLoader == OpenSheet \/ ProcessRow

SpecLoader == Init /\ [][NextLoader]_vars

----------------------------------------------------------------------------
(* Properties of row extraction *)

\* some column whose cleaned label is the item-name label holds a value
HasItemName(header, row) ==
    \E i \in 1..Min(Len(header), Len(row)) :
        /\ CleanColumnName(header[i]) = ItemNameLabel
        /\ Strip(row[i]) # <<>>

\* C10: a row that, after header mapping, has no non-empty item_name value
\* produces no Record and no Document of any class: processing it leaves the
\* sheet's documents as they were.
C10_NoItemNameNoDocuments ==
    [][ (op' = "row" /\ ~HasItemName(header_row', row_data'))
          => /\ item_info' = EmptyDict
             /\ item_docs' = <<>>
             /\ documents' = documents ]_vars

\* a row with values but no item name, read after a row that gave documents
C10_Witness ==
    /\ op = "row"
    /\ ~IsBlankRow(row_data)
    /\ ~HasItemName(header_row, row_data)
    /\ \E i \in 1..Len(header_row) : CleanColumnName(header_row[i]) = ItemNameLabel
    /\ item_info = EmptyDict
    /\ item_docs = <<>>
    /\ documents # <<>>

----------------------------------------------------------------------------
(* ingest.py: load_documents, _create_test_documents,                      *)
(* _create_system_summary.  The long literal texts are shortened to their  *)
(* title; the metadata keeps the keys of the source.                       *)

CreateTestDocuments ==
    << [page_content |-> <<"\n", "[basic]", "\n", "name:", "A", "\n">>,
        metadata |-> [type |-> "basic_info",
                      category |-> CategoryMapValue(CategoryMapKeys[3]),
                      item_name |-> <<"A">>,
                      source |-> "test_data"]],
       [page_content |-> <<"\n", "[basic]", "\n", "name:", "B", "\n">>,
        metadata |-> [type |-> "basic_info",
                      category |-> CategoryMapValue(CategoryMapKeys[3]),
                      item_name |-> <<"B">>,
                      source |-> "test_data"]] >>

CreateSystemSummary(docs, data_dir) ==
    << [page_content |->
           Strip(<<"\n", "[summary]", "\n", "total:", ToString(Len(docs)), "\n">>),
        metadata |-> [source |-> "ingest.py",
                      type |-> "system_summary",
                      created_at |-> "now",
                      total_documents |-> Len(docs),
                      data_dir |-> data_dir]],
       [page_content |-> Strip(<<"\n", "[guide]", "\n">>),
        metadata |-> [source |-> "ingest.py",
                      type |-> "user_guide",
                      version |-> "1.0",
                      created_at |-> "now"]] >>

\* load_documents on a data directory whose workbook gave exhibition_docs
\* and that holds no file of another format
LoadDocuments(exhibition_docs, data_dir) ==
    LET loaded == IF exhibition_docs # <<>> THEN exhibition_docs
                  ELSE CreateTestDocuments
    IN  IF loaded # <<>>
        THEN loaded \o CreateSystemSummary(loaded, data_dir)
        ELSE loaded

----------------------------------------------------------------------------
(* Document synthesis: every record is tried.  A record holds the derived  *)
(* fields, possibly an item name, and any subset of the nine fields that   *)
(* drive the detailed_info, design_concept and tech_info documents.        *)

DrivingLabels ==
    DetailLabels \o <<ConceptLabel, VisualLabel, TechniqueLabel, EffectLabel>>

ItemNames == { <<"n">>, Unknown }

\* name is <<>> for a record without an item name, <<n>> otherwise
RecordOf(name, present, sheet) ==
    [k \in {SheetNameKey, CategoryKey, ZoneLabel}
           \cup (IF name = <<>> THEN {} ELSE {ItemNameLabel}) \cup present |->
        IF k = SheetNameKey THEN sheet
        ELSE IF k = CategoryKey THEN MapSheetToCategory(sheet)
        ELSE IF k = ZoneLabel THEN <<"A">>
        ELSE IF k = ItemNameLabel THEN name[1]
        ELSE <<"v">>]

Records ==
    { RecordOf(name, present, IndustrialSheet) :
        name \in {<<>>} \cup {<<n>> : n \in ItemNames},
        present \in SUBSET SeqToSet(DrivingLabels) }

InitSynth ==
    /\ collection = <<>>
    /\ SearchInit
    /\ StatsInit
    /\ EmbedInit
    /\ StoreInit
    /\ model_present = TRUE
    /\ SheetInit
    /\ IngestInit
    /\ sheet_name = IndustrialSheet
    /\ header_row = <<>>
    /\ row_idx = 0
    /\ row_data = <<>>
    /\ item_info \in Records
    /\ item_docs = <<>>
    /\ documents = <<>>

\* _create_documents_for_item(item_info, sheet_name)
CreateDocuments ==
    /\ op = "idle"
    /\ item_docs' = CreateDocumentsForItem(item_info, sheet_name)
    /\ op' = "synth"
    /\ UNCHANGED <<collection, query, top_k, flt, fault, fetched, results,
                   text, raised, statsVars, sheet_name, header_row, row_idx,
                   row_data, item_info, documents, pipelineVars>>

\* load_documents: the documents of the record, or the test documents, and
\* the two summary documents
LoadAndSummarize ==
    /\ op = "synth"
    /\ documents' = LoadDocuments(item_docs, "data/raw_docs")
    /\ op' = "load"
    /\ UNCHANGED <<collection, query, top_k, flt, fault, fetched, results,
                   text, raised, statsVars, sheet_name, header_row, row_idx,
                   row_data, item_info, item_docs, pipelineVars>>

NextSynth == CreateDocuments \/ LoadAndSummarize

SpecSynth == InitSynth /\ [][NextSynth]_vars

----------------------------------------------------------------------------
(* Properties of document synthesis *)

TypesOf(docs) == [i \in 1..Len(docs) |-> docs[i].metadata.type]

Present(info, labels) == \E l \in labels : HasKey(info, l) /\ info[l] # <<>>

\* the document types a record calls for, in order
ExpectedTypes(info) ==
    <<"basic_info">>
    \o (IF Present(info, SeqToSet(DetailLabels))
        THEN <<"detailed_info">> ELSE <<>>)
    \o (IF Present(info, {ConceptLabel, VisualLabel})
        THEN <<"design_concept">> ELSE <<>>)
    \o (IF Present(info, {TechniqueLabel, EffectLabel})
        THEN <<"tech_info">> ELSE <<>>)

\* the detailed_info document lists exactly the detail fields present
DetailFieldsExact(info, docs) ==
    \A i \in 1..Len(docs) :
        docs[i].metadata.type = "detailed_info"
            => SeqToSet(docs[i].metadata.detail_fields)
                 = {l \in SeqToSet(DetailLabels) : Present(info, {l})}

HasNonEmptyName(info) ==
    HasKey(info, ItemNameLabel) /\ info[ItemNameLabel] # <<>>

\* C11 as stated: every record with a non-empty item name gets 1 to 4
\* documents, basic_info first.
C11_Original ==
    (op = "synth" /\ HasNonEmptyName(item_info))
        => /\ Len(item_docs) \in 1..4
           /\ TypesOf(item_docs) = ExpectedTypes(item_info)
           /\ DetailFieldsExact(item_info, item_docs)

\* C11: for every record whose item name is non-empty and is not the word
\* "unknown", the synthesizer returns 1 to 4 documents in the order
\* basic_info, detailed_info, design_concept, tech_info, each present iff
\* one of its driving fields is, and detailed_info lists exactly the detail
\* fields present; a record named "unknown" gets no document.
C11_SynthesizesByDrivingFields ==
    (op = "synth" /\ HasNonEmptyName(item_info))
        => IF item_info[ItemNameLabel] = Unknown
           THEN item_docs = <<>>
           ELSE /\ Len(item_docs) \in 1..4
                /\ TypesOf(item_docs) = ExpectedTypes(item_info)
                /\ DetailFieldsExact(item_info, item_docs)

\* a named record with two detail fields and a technique, no concept field
C11_Witness ==
    /\ op = "synth"
    /\ HasNonEmptyName(item_info)
    /\ item_info[ItemNameLabel] # Unknown
    /\ TypesOf(item_docs) = <<"basic_info", "detailed_info", "tech_info">>
    /\ Len(item_docs[2].metadata.detail_fields) = 2

RequiredMetadataKeys == {"type", "item_name", "category", "zone", "source"}

\* C12: every document the ingestion pipeline creates carries all of the
\* metadata keys type, item_name, category, zone and source.
C12_Original ==
    /\ \A i \in 1..Len(item_docs) :
          RequiredMetadataKeys \subseteq DOMAIN item_docs[i].metadata
    /\ \A i \in 1..Len(documents) :
          RequiredMetadataKeys \subseteq DOMAIN documents[i].metadata

----------------------------------------------------------------------------
(* embeddings.py: EmbeddingManager.embed_texts.  A vector has two integer   *)
(* components.  L2 normalisation keeps the direction of a vector and fixes *)
(* its length, so a normalised vector is written as the smallest integer   *)
(* vector of the same direction.                                           *)

BatchSize == 32         \* batch_size
MaxTokenLength == 256   \* max_length of the tokenizer call

RECURSIVE Gcd(_, _)
Gcd(a, b) == IF b = 0 THEN a ELSE Gcd(b, a % b)

Max(a, b) == IF a >= b THEN a ELSE b

\* tokenizer: [CLS] text [SEP], truncated to max_length tokens
Tokenize(t) ==
    <<"[CLS]">> \o SubSeq(t, 1, Min(Len(t), MaxTokenLength - 2)) \o <<"[SEP]">>

RECURSIVE LongestTokens(_)
LongestTokens(batch) ==
    IF batch = <<>> THEN 0
    ELSE Max(Len(Tokenize(Head(batch))), LongestTokens(Tail(batch)))

\* padding=True: every text of the batch is padded to the longest one
PaddedIds(t, width) ==
    [j \in 1..width |->
        IF j <= Len(Tokenize(t)) THEN Tokenize(t)[j] ELSE "[PAD]"]

AttentionMask(t, width) ==
    [j \in 1..width |-> IF j <= Len(Tokenize(t)) THEN 1 ELSE 0]

\* outputs.last_hidden_state at one position
TokenEmbedding(tok) ==
    CASE tok = "[CLS]" -> <<1, 0>>
      [] tok = "[SEP]" -> <<0, 1>>
      [] tok = "[PAD]" -> <<5, 7>>
      [] tok = "a"     -> <<2, 0>>
      [] tok = "b"     -> <<0, 3>>
      [] OTHER         -> <<1, 1>>

\* torch.sum(token_embeddings * input_mask_expanded, 1) for one text
RECURSIVE SumEmbeddings(_, _, _)
SumEmbeddings(ids, mask, j) ==
    IF j = 0 THEN <<0, 0>>
    ELSE LET rest == SumEmbeddings(ids, mask, j - 1)
             e    == TokenEmbedding(ids[j])
         IN  <<rest[1] + e[1] * mask[j], rest[2] + e[2] * mask[j]>>

RECURSIVE SumMask(_, _)
SumMask(mask, j) == IF j = 0 THEN 0 ELSE SumMask(mask, j - 1) + mask[j]

\* torch.nn.functional.normalize(sum_embeddings / sum_mask, p=2, dim=1):
\* dividing by the positive sum_mask keeps the direction
Normalize(sum, count) ==
    LET g == Gcd(sum[1], sum[2])
    IN  IF count = 0 \/ g = 0 THEN <<0, 0>>
        ELSE <<sum[1] \div g, sum[2] \div g>>

\* mutant: the attention mask is left out of the pooling
PooledUnmasked(t, width) ==
    LET ones == [j \in 1..width |-> 1]
    IN  Normalize(SumEmbeddings(PaddedIds(t, width), ones, width), width)

\* mean pooling and normalisation of one text of a batch padded to width
Pooled(t, width) ==
    LET mask == AttentionMask(t, width)
    IN  Normalize(SumEmbeddings(PaddedIds(t, width), mask, width),
                  SumMask(mask, width))

\* one pass of the loop body: the vectors of one batch
EmbedBatch(batch) ==
    [i \in 1..Len(batch) |-> Pooled(batch[i], LongestTokens(batch))]

\* the loop over range(0, len(texts), batch_size) and np.vstack
RECURSIVE EmbedFrom(_, _, _)
EmbedFrom(ts, i, batch_size) ==
    IF i > Len(ts) THEN <<>>
    ELSE EmbedBatch(SubSeq(ts, i, Min(i + batch_size - 1, Len(ts))))
         \o EmbedFrom(ts, i + batch_size, batch_size)

EmbedTextsWith(ts, batch_size) ==
    IF ts = <<>> THEN <<>> ELSE EmbedFrom(ts, 1, batch_size)

\* embed_texts: the value returned, or the exception of the model call
EmbedTexts(ts, f) ==
    IF ts = <<>> THEN [raised |-> FALSE, value |-> <<>>]
    ELSE IF f = "model" THEN [raised |-> TRUE, value |-> <<>>]
    ELSE [raised |-> FALSE, value |-> EmbedTextsWith(ts, BatchSize)]

\* embed_query(query) == embed_texts([query])[0]
EmbedQuery(q) == EmbedTextsWith(<<q>>, BatchSize)[1]

----------------------------------------------------------------------------
(* Embedding: the inputs tried are lists of up to MaxTexts texts of        *)
(* different lengths, so that batches are padded.                          *)

MaxTexts == 66

TextPool == << <<"a">>, <<"a", "b", "b">>, <<>>, <<"b", "a">> >>

\* n texts taken from the pool in a cycle, starting anywhere
TextList(n, start) ==
    [i \in 1..n |-> TextPool[((start + i - 2) % Len(TextPool)) + 1]]

EmbedInputs ==
    { TextList(n, start) : n \in 0..MaxTexts, start \in 1..Len(TextPool) }

EmbedFaults == {"none", "model"}

InitEmbed ==
    /\ collection = <<>>
    /\ SearchInit
    /\ StatsInit
    /\ LoaderInit
    /\ StoreInit
    /\ model_present = TRUE
    /\ SheetInit
    /\ IngestInit
    /\ texts \in EmbedInputs
    /\ embeddings = <<>>

EmbedTextsCall ==
    /\ op = "idle"
    /\ \E f \in EmbedFaults :
          LET r == EmbedTexts(texts, f)
          IN  /\ fault' = (IF r.raised THEN "model" ELSE "none")
              /\ raised' = r.raised
              /\ embeddings' = r.value
    /\ op' = "embed"
    /\ UNCHANGED <<collection, query, top_k, flt, fetched, results, text,
                   statsVars, loaderVars, texts, storeVars, sheetVars,
                   ingestVars, byVars>>

NextEmbed == EmbedTextsCall

SpecEmbed == InitEmbed /\ [][NextEmbed]_vars

----------------------------------------------------------------------------
(* Properties of embedding *)

\* the embedding of one text on its own
EmbedAlone(t) == EmbedTextsWith(<<t>>, 1)[1]

\* C13: embed_texts(texts) returns exactly len(texts) vectors, the i-th
\* vector is the embedding of the i-th text, for every input length
\* (multiples of 32 or not, and the empty input), and the result is the
\* same as embedding the same input with any other batch size.
C13_OneVectorPerTextAnyBatch ==
    (op = "embed" /\ ~raised)
        => /\ Len(embeddings) = Len(texts)
           /\ \A i \in 1..Len(texts) : embeddings[i] = EmbedAlone(texts[i])
           /\ \A b \in 1..(Len(texts) + 1) :
                 embeddings = EmbedTextsWith(texts, b)

\* more than one batch, the last one short, texts of different lengths
C13_Witness ==
    /\ op = "embed"
    /\ ~raised
    /\ Len(texts) > BatchSize
    /\ Len(texts) % BatchSize # 0
    /\ Len(embeddings) = Len(texts)
    /\ \E i, j \in 1..BatchSize :
          Len(texts[i]) # Len(texts[j]) /\ embeddings[i] # embeddings[j]

----------------------------------------------------------------------------
(* embeddings.py: the EmbeddingManager singleton and the Chroma client.    *)
(* The client is a map from collection name to collection; a collection    *)
(* holds its metadata and its chunks in insertion order.                   *)

DefaultCollection == "exhibition_docs"
CollectionNames == {DefaultCollection, "other_docs"}
EmbeddingDim == 384     \* config.get("hidden_size", 384)
AddBatchSize == 100     \* batch_size of build_vector_database
MinRunChunks == 3       \* one document and the two summary documents

MaxIds == 4             \* size of the id space
MaxRunChunks == 3       \* chunks of one ingestion run

IdSpace == 1..MaxIds

\* get_embedding_manager(): the singleton, built on first use; building it
\* raises FileNotFoundError when a model file is missing
GetEmbeddingManager(loaded, present) ==
    IF loaded THEN [raised |-> FALSE, loaded |-> TRUE]
    ELSE IF ~present THEN [raised |-> TRUE, loaded |-> FALSE]
    ELSE [raised |-> FALSE, loaded |-> TRUE]

NewCollection ==
    [metadata |-> [hnsw_space |-> "cosine",
                   description |-> "exhibition database",
                   created_by |-> "RAG System",
                   embedding_model |-> "all-MiniLM-L6-v2 (transformers)",
                   embedding_dim |-> EmbeddingDim],
     chunks |-> <<>>]

\* mutant: the collection is created anew on every call
GetOrCreateCollectionAlwaysCreates(cl, name) == Put(cl, name, NewCollection)

\* get_or_create_collection: get_collection, and create_collection when
\* that raises
GetOrCreateCollection(cl, name) ==
    IF HasKey(cl, name) THEN cl ELSE Put(cl, name, NewCollection)

IdsOf(chunks) == {chunks[i].id : i \in 1..Len(chunks)}

HasRepeats(ids) == \E i, j \in 1..Len(ids) : i # j /\ ids[i] = ids[j]

NewChunks(ids) == [i \in 1..Len(ids) |-> [id |-> ids[i], document |-> "text"]]

\* mutant: the store appends whatever it is given
CollectionAddBlind(chunks, ids, mode) ==
    [raised |-> FALSE, chunks |-> chunks \o NewChunks(ids)]

\* collection.add(ids=batch_ids, ...): the store refuses a batch that
\* repeats an id; an id it already holds is refused too (mode "raise") or
\* skipped (mode "ignore"), depending on the store version
CollectionAdd(chunks, ids, mode) ==
    IF HasRepeats(ids) THEN [raised |-> TRUE, chunks |-> chunks]
    ELSE IF IdsOf(chunks) \cap SeqToSet(ids) # {}
    THEN IF mode = "raise" THEN [raised |-> TRUE, chunks |-> chunks]
         ELSE [raised |-> FALSE,
               chunks |-> chunks \o NewChunks(
                   SelectSeq(ids, LAMBDA x : x \notin IdsOf(chunks)))]
    ELSE [raised |-> FALSE, chunks |-> chunks \o NewChunks(ids)]

\* the loop over range(0, len(texts), batch_size): it stops at the first
\* batch the store refuses
RECURSIVE AddInBatches(_, _, _, _)
AddInBatches(chunks, ids, i, mode) ==
    IF i > Len(ids) THEN [raised |-> FALSE, chunks |-> chunks]
    ELSE LET r == CollectionAdd(chunks,
                      SubSeq(ids, i, Min(i + AddBatchSize - 1, Len(ids))), mode)
         IN  IF r.raised THEN r
             ELSE AddInBatches(r.chunks, ids, i + AddBatchSize, mode)

\* build_vector_database from the embedding step on: the manager, the
\* collection, fresh ids, the batched add; any exception is caught
BuildVectorDatabase(cl, loaded, present, ids, mode) ==
    LET em == GetEmbeddingManager(loaded, present)
    IN  IF em.raised
        THEN [ok |-> FALSE, loaded |-> em.loaded, client |-> cl]
        ELSE LET got == GetOrCreateCollection(cl, DefaultCollection)
                 r   == AddInBatches(got[DefaultCollection].chunks, ids, 1, mode)
             IN  [ok |-> ~r.raised, loaded |-> em.loaded,
                  client |-> Put(got, DefaultCollection,
                                 [got[DefaultCollection] EXCEPT !.chunks = r.chunks])]

\* ExhibitionRetriever.__init__(collection_name)
ConstructorCall(cl, loaded, present, name) ==
    LET em == GetEmbeddingManager(loaded, present)
    IN  IF em.raised
        THEN [raised |-> TRUE, loaded |-> em.loaded, client |-> cl]
        ELSE [raised |-> FALSE, loaded |-> em.loaded,
              client |-> GetOrCreateCollection(cl, name)]

AddModes == {"raise", "ignore"}

InitStore ==
    /\ collection = <<>>
    /\ SearchInit
    /\ StatsInit
    /\ LoaderInit
    /\ EmbedInit
    /\ StoreInit
    /\ model_present \in BOOLEAN
    /\ SheetInit
    /\ IngestInit

\* ExhibitionRetriever(collection_name)
ConstructRetriever ==
    /\ op = "idle"
    /\ \E name \in CollectionNames :
          LET r == ConstructorCall(client, embedder_loaded, model_present, name)
          IN  /\ collection_name' = name
              /\ raised' = r.raised
              /\ retriever' = (IF r.raised THEN "failed" ELSE "ready")
              /\ embedder_loaded' = r.loaded
              /\ client' = r.client
    /\ before' = client
    /\ op' = "construct"
    /\ UNCHANGED <<collection, query, top_k, flt, fault, fetched, results,
                   text, statsVars, loaderVars, embedVars, model_present,
                   run_ids, sheetVars,
                   ingestVars, byVars>>

\* get_database_info(): get_collection_info() on the default collection;
\* an exception becomes an error dictionary
GetDatabaseInfo ==
    /\ op = "idle"
    /\ LET r == ConstructorCall(client, embedder_loaded, model_present,
                                DefaultCollection)
       IN  /\ collection_name' = DefaultCollection
           /\ fault' = (IF r.raised THEN "model" ELSE "none")
           /\ embedder_loaded' = r.loaded
           /\ client' = r.client
    /\ before' = client
    /\ op' = "info"
    /\ UNCHANGED <<collection, query, top_k, flt, fetched, results, text,
                   raised, statsVars, loaderVars, embedVars, model_present,
                   retriever, run_ids, sheetVars,
                   ingestVars, byVars>>

\* build_vector_database(): one ingestion run
IngestRun ==
    /\ op = "idle"
    /\ \E n \in MinRunChunks..MaxRunChunks :
       \E ids \in [1..n -> IdSpace], mode \in AddModes :
          LET r == BuildVectorDatabase(client, embedder_loaded, model_present,
                                       ids, mode)
          IN  /\ run_ids' = ids
              /\ fault' = (IF r.ok THEN "none" ELSE "build")
              /\ embedder_loaded' = r.loaded
              /\ client' = r.client
    /\ collection_name' = DefaultCollection
    /\ before' = client
    /\ op' = "ingest"
    /\ UNCHANGED <<collection, query, top_k, flt, fetched, results, text,
                   raised, statsVars, loaderVars, embedVars, model_present,
                   retriever, sheetVars,
                   ingestVars, byVars>>

\* clear_vector_database(collection_name), confirmed: delete(where={})
\* empties the collection or is refused, depending on the store version
ClearVectorDatabase ==
    /\ op = "idle"
    /\ \E name \in CollectionNames, refused \in BOOLEAN :
          LET r == ConstructorCall(client, embedder_loaded, model_present, name)
          IN  /\ collection_name' = name
              /\ embedder_loaded' = r.loaded
              /\ fault' = (IF r.raised \/ refused THEN "clear" ELSE "none")
              /\ client' = IF r.raised \/ refused THEN r.client
                           ELSE Put(r.client, name,
                                    [r.client[name] EXCEPT !.chunks = <<>>])
    /\ before' = client
    /\ op' = "clear"
    /\ UNCHANGED <<collection, query, top_k, flt, fetched, results, text,
                   raised, statsVars, loaderVars, embedVars, model_present,
                   retriever, run_ids, sheetVars,
                   ingestVars, byVars>>

\* the call returns to its caller
ReturnStore ==
    /\ op # "idle"
    /\ op' = "idle"
    /\ fault' = "none"
    /\ raised' = FALSE
    /\ retriever' = "none"
    /\ collection_name' = ""
    /\ run_ids' = <<>>
    /\ before' = <<>>
    /\ UNCHANGED <<collection, query, top_k, flt, fetched, results, text,
                   statsVars, loaderVars, embedVars, model_present,
                   embedder_loaded, client, sheetVars,
                   ingestVars, byVars>>

NextStore ==
    \/ ConstructRetriever
    \/ GetDatabaseInfo
    \/ IngestRun
    \/ ClearVectorDatabase
    \/ ReturnStore

SpecStore == InitStore /\ [][NextStore]_vars

----------------------------------------------------------------------------
(* Properties of the store *)

\* C14: get_or_create_collection(name) creates a collection (cosine
\* distance, model metadata recorded) only when none of that name exists;
\* an existing one is reused, so the chunks stored are the same after the
\* call as before it.
C14_GetOrCreateKeepsChunks ==
    (op \in {"construct", "info"})
        => /\ \A n \in DOMAIN before :
                 n \in DOMAIN client /\ client[n] = before[n]
           /\ (DOMAIN client) \ (DOMAIN before) \subseteq {collection_name}
           /\ \A n \in (DOMAIN client) \ (DOMAIN before) :
                 /\ client[n].chunks = <<>>
                 /\ client[n].metadata.hnsw_space = "cosine"
                 /\ client[n].metadata.embedding_dim = EmbeddingDim
           /\ (embedder_loaded => collection_name \in DOMAIN client)

\* a retriever is constructed over a collection that holds chunks
C14_Witness ==
    /\ op = "construct"
    /\ retriever = "ready"
    /\ collection_name \in DOMAIN before
    /\ before[collection_name].chunks # <<>>
    /\ client = before

\* C16: constructing the retrieval engine fails at once when the embedding
\* model artifact is missing or when the named collection does not exist.
C16_Original ==
    (op = "construct"
       /\ (~model_present \/ collection_name \notin DOMAIN before))
        => (retriever = "failed" /\ raised)

----------------------------------------------------------------------------
(* excel_loader.py: _process_complex_sheet on a whole sheet, and            *)
(* load_all_sheets.  A sheet is a rectangular grid of cells (pandas reads  *)
(* it with header=None, dtype=str, keep_default_na=False); rows and the    *)
(* header index are 0-based as in the source.                              *)

DefaultHeaderIdx == 1   \* header_row_idx = 1
MinHeaderMatches == 2   \* header_matches >= 2
ScanLimit == 10         \* range(min(10, len(raw_df)))

HeaderKeywords == <<ZoneLabel, ItemNameLabel, AuthorLabel, SeqLabel>>

\* ' '.join([str(v) for v in row if v])
RowString(row) == Join(SelectSeq(row, LAMBDA c : c # <<>>), <<" ">>)

\* sum([1 for keyword in header_keywords if keyword in row_str])
HeaderMatches(row) ==
    Cardinality({k \in 1..Len(HeaderKeywords) :
                    IsSubstring(HeaderKeywords[k], RowString(row))})

\* the scan for idx in range(min(10, len(raw_df))), first hit wins
RECURSIVE ScanForHeader(_, _)
ScanForHeader(g, idx) ==
    IF idx >= Min(ScanLimit, Len(g)) THEN DefaultHeaderIdx
    ELSE IF HeaderMatches(g[idx + 1]) >= MinHeaderMatches THEN idx
    ELSE ScanForHeader(g, idx + 1)

\* mutant: the scan runs even when the default candidate qualifies
DetectHeaderScanFirst(g) == ScanForHeader(g, 0)

\* header_row_idx of a grid of at least two rows
DetectHeader(g) ==
    IF HeaderMatches(g[DefaultHeaderIdx + 1]) >= MinHeaderMatches
    THEN DefaultHeaderIdx
    ELSE ScanForHeader(g, 0)

\* where the processing of a sheet raises: nowhere, while the sheet is
\* read, or while one data row is handled
ReadFault == [kind |-> "read"]
RowFault(i) == [kind |-> "row", row |-> i]

\* the loop for row_idx in range(data_start_row, len(raw_df)); acc holds
\* the documents, the records and the rows handled so far
RECURSIVE ProcessDataRows(_, _, _, _, _, _)
ProcessDataRows(g, header, sheet, i, flt_at, acc) ==
    IF i >= Len(g) THEN acc
    ELSE IF IsBlankRow(g[i + 1])
    THEN ProcessDataRows(g, header, sheet, i + 1, flt_at, acc)
    ELSE IF flt_at = RowFault(i)
    THEN [acc EXCEPT !.failed = TRUE]
    ELSE LET r == RowOutcome(g[i + 1], header, sheet)
         IN  ProcessDataRows(g, header, sheet, i + 1, flt_at,
                 [acc EXCEPT
                    !.documents = @ \o r.docs,
                    !.records = IF r.info # EmptyDict
                                THEN Append(@, [row |-> i, info |-> r.info])
                                ELSE @,
                    !.rows = Append(@, i)])

\* _process_complex_sheet: the except branch returns the documents
\* gathered so far
ProcessComplexSheet(g, sheet, flt_at) ==
    IF flt_at = ReadFault \/ Len(g) <= DefaultHeaderIdx
    THEN [failed |-> TRUE, documents |-> <<>>, records |-> <<>>,
          rows |-> <<>>, header_idx |-> DefaultHeaderIdx, header |-> <<>>]
    ELSE LET h == DetectHeader(g)
         IN  ProcessDataRows(g, g[h + 1], sheet, h + 1, flt_at,
                 [failed |-> FALSE, documents |-> <<>>, records |-> <<>>,
                  rows |-> <<>>, header_idx |-> h, header |-> g[h + 1]])

----------------------------------------------------------------------------
(* The sheets tried: decorative rows, then a header row, then a few body   *)
(* rows; every row is three cells wide.                                    *)

MaxLead == 11           \* decorative rows above the header
MaxBody == 2            \* rows below the header

TitleRow  == << <<"T">>, <<>>, <<>> >>
BlankRow  == << <<>>, <<" ">>, <<>> >>
FullRow   == << <<"A">>, <<" ", "n", " ">>, <<"t">> >>
NoNameRow == << <<"A">>, <<>>, <<"t">> >>

PlainHeader == <<ZoneLabel, ItemNameLabel, TechniqueLabel>>

\* header rows: qualifying ones (plain; padded and repeated label; a label
\* with a line break) and one with a single keyword
GridHeaders ==
    { PlainHeader,
      <<ZoneLabel, <<" ">> \o ItemNameLabel \o <<"\n">>, ItemNameLabel>>,
      <<ZoneLabel, ItemNameLabel, <<"ji", "shu", "\n", "te", "dian">>>>,
      <<ItemNameLabel, MotivationLabel, ConceptLabel>> }

BodyRows == { FullRow, BlankRow, NoNameRow, PlainHeader }

Bodies == UNION { [1..n -> BodyRows] : n \in 0..MaxBody }

GridOf(lead, header, body) ==
    [i \in 1..lead |-> TitleRow] \o <<header>> \o body

\* a grid and the place where processing it raises: nowhere, at the read,
\* or at a row from the header row on
SheetsWith(g, lead) ==
    { [grid |-> g, fault |-> f] :
        f \in {NoFault, ReadFault}
               \cup {RowFault(i) : i \in lead..(Len(g) - 1)} }

FirstSheets ==
    { [grid |-> <<>>, fault |-> NoFault] } \cup
    UNION { SheetsWith(GridOf(lead, header, body), lead) :
              lead \in 0..MaxLead, header \in GridHeaders, body \in Bodies }

\* the sheets after the first: a plain sheet with one entry, or an empty one
LaterSheets ==
    { [grid |-> <<TitleRow, PlainHeader, FullRow>>, fault |-> NoFault],
      [grid |-> <<>>, fault |-> NoFault] }

Workbook == << IndustrialSheet, <<"S", "1">> >>

\* load_all_sheets: the workbook is opened; when that raises nothing is
\* loaded
LoadAllSheets ==
    /\ op = "idle"
    /\ \E opened \in BOOLEAN :
          /\ sheets_left' = (IF opened THEN Workbook ELSE <<>>)
          /\ fault' = (IF opened THEN "none" ELSE "open")
    /\ all_documents' = <<>>
    /\ op' = "book"
    /\ UNCHANGED <<collection, query, top_k, flt, fetched, results, text,
                   raised, statsVars, loaderVars, embedVars, storeVars, grid,
                   fault_at, header_row_idx, failed, records, data_rows,
                   ingestVars, byVars>>

\* one pass of the loop over the sheet names
ProcessSheet ==
    /\ op \in {"book", "sheet"}
    /\ sheets_left # <<>>
    /\ \E s \in (IF Len(sheets_left) = Len(Workbook)
                 THEN FirstSheets ELSE LaterSheets) :
          LET r == ProcessComplexSheet(s.grid, Head(sheets_left), s.fault)
          IN  /\ grid' = s.grid
              /\ fault_at' = s.fault
              /\ failed' = r.failed
              /\ header_row_idx' = r.header_idx
              /\ header_row' = r.header
              /\ records' = r.records
              /\ data_rows' = r.rows
              /\ documents' = r.documents
              /\ all_documents' = all_documents \o r.documents
    /\ sheet_name' = Head(sheets_left)
    /\ sheets_left' = Tail(sheets_left)
    /\ op' = "sheet"
    /\ UNCHANGED <<collection, query, top_k, flt, fault, fetched, results,
                   text, raised, statsVars, row_idx, row_data, item_info,
                   item_docs, embedVars, storeVars, ingestVars, byVars>>

NextSheets == LoadAllSheets \/ ProcessSheet

SpecSheets == Init /\ [][NextSheets]_vars

----------------------------------------------------------------------------
(* Properties of sheet extraction *)

\* row i of the grid holds at least two of the four keywords
Qualifies(g, i) == HeaderMatches(g[i + 1]) >= MinHeaderMatches

QualifyingRows(g) == {i \in 0..(Min(ScanLimit, Len(g)) - 1) : Qualifies(g, i)}

\* the header row the rule names: the default candidate if it qualifies,
\* else the lowest qualifying row of the first ten, else the default
RuleHeaderIdx(g) ==
    IF Len(g) > DefaultHeaderIdx /\ Qualifies(g, DefaultHeaderIdx)
    THEN DefaultHeaderIdx
    ELSE IF QualifyingRows(g) = {} THEN DefaultHeaderIdx
    ELSE CHOOSE i \in QualifyingRows(g) : \A j \in QualifyingRows(g) : i <= j

\* C15: when extraction of one sheet fails at any point, the pipeline
\* continues with the remaining sheets and the failed sheet contributes zero
\* documents (no partial output from the failed sheet).
C15_Original ==
    (op = "sheet" /\ failed) => documents = <<>>

\* C18: a sheet whose header row is followed by no non-blank data row
\* (including a sheet whose header row is its last row) yields zero records
\* and zero documents without taking the error path.
C18_Original ==
    (/\ op = "sheet"
     /\ fault_at = NoFault
     /\ QualifyingRows(grid) # {}
     /\ \A i \in (RuleHeaderIdx(grid) + 1)..(Len(grid) - 1) :
           IsBlankRow(grid[i + 1]))
        => (~failed /\ records = <<>> /\ documents = <<>>)

\* C19: the default candidate row (index 1) is the header when at least 2
\* of the 4 keywords occur in it; otherwise the header is the lowest-index
\* row among the first 10 with at least 2 matches, and the default candidate
\* if there is none.  The data rows are exactly the rows after the header
\* row that are not blank, in order.
C19_HeaderDetection ==
    (op = "sheet" /\ ~failed)
        => /\ header_row_idx = RuleHeaderIdx(grid)
           /\ header_row = grid[header_row_idx + 1]
           /\ SeqToSet(data_rows)
                = {i \in (header_row_idx + 1)..(Len(grid) - 1) :
                      ~IsBlankRow(grid[i + 1])}
           /\ \A i, j \in 1..Len(data_rows) :
                 i < j => data_rows[i] < data_rows[j]

\* the default candidate does not qualify, two other rows do, the lower one
\* is the header and a blank row below it is skipped
C19_Witness ==
    /\ op = "sheet"
    /\ ~failed
    /\ ~Qualifies(grid, DefaultHeaderIdx)
    /\ Cardinality(QualifyingRows(grid)) >= 2
    /\ header_row_idx # DefaultHeaderIdx
    /\ \E i \in (header_row_idx + 1)..(Len(grid) - 1) : IsBlankRow(grid[i + 1])
    /\ data_rows # <<>>

\* the header labels trimmed, line breaks taken out
TrimmedLabels(header) ==
    { ReplaceChar(ReplaceChar(Strip(header[c]), "\n", <<>>), "\r", <<>>) :
        c \in {c \in 1..Len(header) : Strip(header[c]) # <<>>} }

\* C20 as stated: where a header row with at least 2 keywords exists in the
\* first 10 rows, the keys of every record equal the header labels trimmed
\* and newline-stripped, no key outside that set.
C20_Original ==
    (op = "sheet" /\ QualifyingRows(grid) # {})
        => \A r \in 1..Len(records) :
              DOMAIN records[r].info = TrimmedLabels(header_row)

\* the columns of a row that get a key: label not blank, cell not blank
MappedColumns(header, row) ==
    {c \in 1..Min(Len(header), Len(row)) :
        Strip(header[c]) # <<>> /\ Strip(row[c]) # <<>>}

\* the label as a key: trimmed, a line feed becomes a space, a carriage
\* return goes
KeyOf(label) == ReplaceChar(ReplaceChar(Strip(label), "\n", <<" ">>), "\r", <<>>)

\* C20: where a header row with at least 2 keywords exists in the first 10
\* rows, the keys of every record are the derived keys sheet_name and
\* category, the zone key when the first cell of the row is not empty, and
\* the labels of the columns whose cell is not blank, each trimmed with
\* line feeds replaced by a space; no key holds a line break.
C20_KeysAreCleanedLabels ==
    (op = "sheet" /\ QualifyingRows(grid) # {})
        => \A r \in 1..Len(records) :
              LET row == grid[records[r].row + 1]
                  info == records[r].info
              IN  /\ DOMAIN info
                       = {KeyOf(header_row[c]) :
                             c \in MappedColumns(header_row, row)}
                         \cup {SheetNameKey, CategoryKey}
                         \cup (IF row[1] # <<>> THEN {ZoneLabel} ELSE {})
                  /\ \A k \in DOMAIN info :
                        \A p \in 1..Len(k) : k[p] \notin {"\n", "\r"}
                  /\ \A c \in MappedColumns(header_row, row) :
                        \E d \in MappedColumns(header_row, row) :
                           /\ KeyOf(header_row[d]) = KeyOf(header_row[c])
                           /\ info[KeyOf(header_row[c])] = Strip(row[d])

\* a record read under a header whose label holds a line break
C20_Witness ==
    /\ op = "sheet"
    /\ QualifyingRows(grid) # {}
    /\ \E c \in 1..Len(header_row) : IsSubstring(<<"\n">>, Strip(header_row[c]))
    /\ \E r \in 1..Len(records) :
          <<"ji", "shu", " ", "te", "dian">> \in DOMAIN records[r].info

----------------------------------------------------------------------------
(* Properties of repeated header labels *)

\* the columns of the header whose label gives this key
ColumnsOf(header, key) ==
    {c \in 1..Len(header) : Strip(header[c]) # <<>> /\ KeyOf(header[c]) = key}

\* the keys that several columns of the header give
RepeatedKeys(header) ==
    {KeyOf(header[c]) : c \in {d \in 1..Len(header) :
                                  Cardinality(ColumnsOf(header, KeyOf(header[d]))) > 1
                                  /\ Strip(header[d]) # <<>>}}

LastOf(cols) == CHOOSE c \in cols : \A d \in cols : d <= c

\* the trimmed cell of a column, empty when the row is too short
CellAt(row, c) == IF c <= Len(row) THEN Strip(row[c]) ELSE <<>>

----------------------------------------------------------------------------
(* ingest.py: split_documents.  RecursiveCharacterTextSplitter is library  *)
(* code; it is modelled on texts that hold none of the separators, where   *)
(* it falls back to the hard cut: the text is cut into windows of          *)
(* chunk_size characters, each window starting chunk_size - chunk_overlap  *)
(* characters after the one before, and every chunk gets a copy of the     *)
(* metadata of its document.                                               *)

Digits == <<"0", "1", "2", "3", "4", "5", "6", "7", "8", "9">>

\* a text of n characters without separator
TextOfLength(n) == [i \in 1..n |-> Digits[(i % 10) + 1]]

\* doc.metadata.get("type", "unknown")
DocType(doc) ==
    IF "type" \in DOMAIN doc.metadata THEN doc.metadata.type ELSE "unknown"

\* the list a document is appended to
DocClass(doc) ==
    CASE DocType(doc) = "basic_info" -> "basic"
      [] DocType(doc) = "detailed_info" -> "detailed"
      [] DocType(doc) = "image_info" -> "image"
      [] DocType(doc) = "design_concept" -> "concept"
      [] DocType(doc) \in {"system_summary", "user_guide"} -> "summary"
      [] OTHER -> "other"

OfClass(docs, class) == SelectSeq(docs, LAMBDA d : DocClass(d) = class)

\* mutant: every splitter has the default window
SplitterAlwaysDefault(class) == [chunk_size |-> 500, chunk_overlap |-> 50]

\* chunk_size and chunk_overlap of the four splitters
SplitterOf(class) ==
    CASE class = "detailed" -> [chunk_size |-> 800, chunk_overlap |-> 100]
      [] class = "concept" -> [chunk_size |-> 600, chunk_overlap |-> 80]
      [] class = "summary" -> [chunk_size |-> 700, chunk_overlap |-> 90]
      [] OTHER -> [chunk_size |-> 500, chunk_overlap |-> 50]

\* the windows of a text from position start on
RECURSIVE MergeSplits(_, _, _, _)
MergeSplits(txt, chunk_size, chunk_overlap, start) ==
    IF Len(txt) - start + 1 <= chunk_size
    THEN << SubSeq(txt, start, Len(txt)) >>
    ELSE << SubSeq(txt, start, start + chunk_size - 1) >>
         \o MergeSplits(txt, chunk_size, chunk_overlap,
                        start + chunk_size - chunk_overlap)

SplitText(txt, chunk_size, chunk_overlap) ==
    IF txt = <<>> THEN <<>> ELSE MergeSplits(txt, chunk_size, chunk_overlap, 1)

\* TextSplitter.split_documents: the chunks of every document in turn
RECURSIVE SplitterSplitDocuments(_, _, _)
SplitterSplitDocuments(docs, chunk_size, chunk_overlap) ==
    IF docs = <<>> THEN <<>>
    ELSE LET parts == SplitText(Head(docs).page_content, chunk_size,
                                chunk_overlap)
         IN  [k \in 1..Len(parts) |->
                 [page_content |-> parts[k], metadata |-> Head(docs).metadata]]
             \o SplitterSplitDocuments(Tail(docs), chunk_size, chunk_overlap)

SplitClass(docs, class) ==
    SplitterSplitDocuments(OfClass(docs, class),
                           SplitterOf(class).chunk_size,
                           SplitterOf(class).chunk_overlap)

SplitDocuments(docs) ==
    IF docs = <<>> THEN <<>>
    ELSE OfClass(docs, "basic") \o OfClass(docs, "image")
         \o SplitClass(docs, "detailed") \o SplitClass(docs, "concept")
         \o SplitClass(docs, "summary") \o SplitClass(docs, "other")

\* documents tried: every type the function tells apart, a type it does not
\* know, and a document without type; short texts and texts one character
\* longer than a window, or long enough for three windows
MaxSplitDocs == 2
ShortLength == 3
LongLengths == {501, 601, 701, 801, 1501}
SplitTypes ==
    {"basic_info", "detailed_info", "image_info", "design_concept",
     "system_summary", "user_guide", "tech_info", "none"}

DocOf(type, n) ==
    [page_content |-> TextOfLength(n),
     metadata |-> IF type = "none" THEN [source |-> "f"]
                  ELSE [source |-> "f", type |-> type]]

InitSplit ==
    /\ collection = <<>>
    /\ SearchInit
    /\ StatsInit
    /\ LoaderInit
    /\ EmbedInit
    /\ StoreInit
    /\ model_present = TRUE
    /\ SheetInit
    /\ split_out = <<>>
    /\ build_ret = NoReturn
    /\ load_dir = NoDirectory
    /\ dir_exists = FALSE
    /\ by_arg = ""
    /\ by_query = <<>>
    /\ \E long \in LongLengths, n \in 1..MaxSplitDocs :
          split_in \in [1..n -> {DocOf(t, l) : t \in SplitTypes,
                                               l \in {ShortLength, long}}]

SplitDocumentsCall ==
    /\ op = "idle"
    /\ split_out' = SplitDocuments(split_in)
    /\ op' = "split"
    /\ UNCHANGED <<collection, query, top_k, flt, fault, fetched, results,
                   text, raised, statsVars, loaderVars, embedVars, storeVars,
                   sheetVars, split_in, build_ret, load_dir, dir_exists,
                   byVars>>

NextSplit == SplitDocumentsCall

SpecSplit == InitSplit /\ [][NextSplit]_vars

----------------------------------------------------------------------------
(* Properties of chunking *)

Count(seq, x) == Cardinality({i \in 1..Len(seq) : seq[i] = x})

\* number of windows of a text of len characters
WindowCount(len, size, overlap) ==
    IF len <= size THEN 1
    ELSE 1 + ((len - size + (size - overlap) - 1) \div (size - overlap))

\* the k-th window (from 0) of a document, with the document's metadata
Window(doc, size, overlap, k) ==
    [page_content |->
        SubSeq(doc.page_content, k * (size - overlap) + 1,
               Min(Len(doc.page_content), k * (size - overlap) + size)),
     metadata |-> doc.metadata]

WindowsOf(doc, size, overlap) ==
    [k \in 1..WindowCount(Len(doc.page_content), size, overlap) |->
        Window(doc, size, overlap, k - 1)]

\* the chunks the rule table gives a document, image_info split by default
StatedChunks(doc) ==
    CASE DocType(doc) = "basic_info" -> <<doc>>
      [] DocType(doc) = "detailed_info" -> WindowsOf(doc, 800, 100)
      [] DocType(doc) = "design_concept" -> WindowsOf(doc, 600, 80)
      [] DocType(doc) \in {"system_summary", "user_guide"} ->
            WindowsOf(doc, 700, 90)
      [] OTHER -> WindowsOf(doc, 500, 50)

\* the chunks split_documents gives a document: image_info stays whole
ActualChunks(doc) ==
    IF DocType(doc) = "image_info" THEN <<doc>> ELSE StatedChunks(doc)

RECURSIVE StatedChunksOfAll(_)
StatedChunksOfAll(docs) ==
    IF docs = <<>> THEN <<>>
    ELSE StatedChunks(Head(docs)) \o StatedChunksOfAll(Tail(docs))

RECURSIVE ActualChunksOfAll(_)
ActualChunksOfAll(docs) ==
    IF docs = <<>> THEN <<>>
    ELSE ActualChunks(Head(docs)) \o ActualChunksOfAll(Tail(docs))

SameChunks(a, b) ==
    /\ Len(a) = Len(b)
    /\ \A i \in 1..Len(a) : Count(a, a[i]) = Count(b, a[i])

\* C22 as stated: basic_info documents come back unchanged and once; every
\* other document, image_info included, is cut with the window and overlap
\* of its class, each chunk with the metadata of its document.
C22_Original ==
    op = "split" => SameChunks(split_out, StatedChunksOfAll(split_in))

\* C22: basic_info and image_info documents come back unchanged and once;
\* every other document is cut with the window and overlap of its class
\* (detailed_info 800/100, design_concept 600/80, system_summary and
\* user_guide 700/90, any other type or no type 500/50), each chunk with
\* the metadata of its document.
C22_SplitByClass ==
    op = "split" => SameChunks(split_out, ActualChunksOfAll(split_in))

\* a design_concept text of 601 characters cut into 600 and 81, next to a
\* basic_info document returned whole
C22_Witness ==
    /\ op = "split"
    /\ \E i, j \in 1..Len(split_out) :
          /\ j = i + 1
          /\ DocType(split_out[i]) = "design_concept"
          /\ DocType(split_out[j]) = "design_concept"
          /\ Len(split_out[i].page_content) = 600
          /\ Len(split_out[j].page_content) = 81
          /\ SubSeq(split_out[i].page_content, 521, 600)
                = SubSeq(split_out[j].page_content, 1, 80)
    /\ \E i \in 1..Len(split_in) :
          /\ DocType(split_in[i]) = "basic_info"
          /\ Count(split_out, split_in[i]) = 1

----------------------------------------------------------------------------
(* ingest.py: build_vector_database from the chunks on, with the data of  *)
(* every chunk: text, metadata, embedding and id.  A stored chunk is a     *)
(* record [id, document, embedding, metadata].  The metadata values tried  *)
(* are strings and integers, which sanitize_metadata hands back as they    *)
(* are.                                                                    *)

\* mutant: the chunks are numbered from 1
WithChunkFieldsOneBased(meta, i, content) ==
    [k \in DOMAIN meta \cup {"chunk_id", "chunk_length", "ingest_time"} |->
        IF k = "chunk_id" THEN i + 1
        ELSE IF k = "chunk_length" THEN Len(content)
        ELSE IF k = "ingest_time" THEN "now"
        ELSE meta[k]]

\* the body of the loop over enumerate(chunks)
WithChunkFields(meta, i, content) ==
    [k \in DOMAIN meta \cup {"chunk_id", "chunk_length", "ingest_time"} |->
        IF k = "chunk_id" THEN i
        ELSE IF k = "chunk_length" THEN Len(content)
        ELSE IF k = "ingest_time" THEN "now"
        ELSE meta[k]]

Metadatas(chs) ==
    [j \in 1..Len(chs) |->
        WithChunkFields(chs[j].metadata, j - 1, chs[j].page_content)]

\* collection.add(embeddings=, documents=, metadatas=, ids=): the store
\* pairs the four lists by position; it takes the whole batch or, when it
\* refuses, nothing of it
CollectionAddRecords(stored, embs, docs, metas, ids, mode, refused) ==
    LET recs == [k \in 1..Len(ids) |->
                    [id |-> ids[k], document |-> docs[k],
                     embedding |-> embs[k], metadata |-> metas[k]]]
    IN  IF refused \/ HasRepeats(ids)
           \/ Len(embs) # Len(ids) \/ Len(docs) # Len(ids)
           \/ Len(metas) # Len(ids)
        THEN [raised |-> TRUE, chunks |-> stored]
        ELSE IF IdsOf(stored) \cap SeqToSet(ids) # {} /\ mode = "raise"
        THEN [raised |-> TRUE, chunks |-> stored]
        ELSE [raised |-> FALSE,
              chunks |-> stored
                  \o SelectSeq(recs, LAMBDA r : r.id \notin IdsOf(stored))]

\* mutant: a refused batch takes the batches before it out again
RECURSIVE AddRecordBatchesRollback(_, _, _, _, _, _, _, _)
AddRecordBatchesRollback(stored, embs, docs, metas, ids, i, mode, refuse_at) ==
    IF i > Len(docs) THEN [raised |-> FALSE, chunks |-> stored]
    ELSE LET end_idx == Min(i + AddBatchSize - 1, Len(docs))
             r == CollectionAddRecords(stored,
                      SubSeq(embs, i, end_idx), SubSeq(docs, i, end_idx),
                      SubSeq(metas, i, end_idx), SubSeq(ids, i, end_idx),
                      mode, refuse_at = ((i - 1) \div AddBatchSize) + 1)
         IN  IF r.raised
             THEN [raised |-> TRUE,
                   chunks |-> SubSeq(stored, 1, Len(stored) - (i - 1))]
             ELSE AddRecordBatchesRollback(r.chunks, embs, docs, metas, ids,
                                           i + AddBatchSize, mode, refuse_at)

\* the loop over range(0, len(texts), batch_size) with the four slices;
\* refuse_at is the number of the batch the store refuses (0: none)
RECURSIVE AddRecordBatches(_, _, _, _, _, _, _, _)
AddRecordBatches(stored, embs, docs, metas, ids, i, mode, refuse_at) ==
    IF i > Len(docs) THEN [raised |-> FALSE, chunks |-> stored]
    ELSE LET end_idx == Min(i + AddBatchSize - 1, Len(docs))
             r == CollectionAddRecords(stored,
                      SubSeq(embs, i, end_idx), SubSeq(docs, i, end_idx),
                      SubSeq(metas, i, end_idx), SubSeq(ids, i, end_idx),
                      mode, refuse_at = ((i - 1) \div AddBatchSize) + 1)
         IN  IF r.raised THEN r
             ELSE AddRecordBatches(r.chunks, embs, docs, metas, ids,
                                   i + AddBatchSize, mode, refuse_at)

ErrorReturn == [ok |-> FALSE, status |-> "error", raised |-> FALSE]

\* build_vector_database: f says which step fails, if any.  Every step is
\* inside the try block, so the call returns in every case.
BuildRun(cl, loaded, present, chs, ids, mode, f) ==
    IF f.kind = "import" \/ chs = <<>>
    THEN [ret |-> ErrorReturn, loaded |-> loaded, client |-> cl,
          embeddings |-> <<>>]
    ELSE
    LET ts    == [j \in 1..Len(chs) |-> chs[j].page_content]
        metas == Metadatas(chs)
        em    == GetEmbeddingManager(loaded, present)
        e     == EmbedTexts(ts, IF f.kind = "model" THEN "model" ELSE "none")
    IN  IF em.raised
        THEN [ret |-> ErrorReturn, loaded |-> em.loaded, client |-> cl,
              embeddings |-> <<>>]
        ELSE IF e.raised \/ e.value = <<>>
        THEN [ret |-> ErrorReturn, loaded |-> em.loaded, client |-> cl,
              embeddings |-> <<>>]
        ELSE LET got == GetOrCreateCollection(cl, DefaultCollection)
                 r   == AddRecordBatches(got[DefaultCollection].chunks,
                            e.value, ts, metas, ids, 1, mode,
                            IF f.kind = "add" THEN f.batch ELSE 0)
             IN  [ret |-> IF r.raised THEN ErrorReturn
                          ELSE [ok |-> TRUE, status |-> "success",
                                raised |-> FALSE],
                  loaded |-> em.loaded,
                  client |-> Put(got, DefaultCollection,
                                 [got[DefaultCollection]
                                     EXCEPT !.chunks = r.chunks]),
                  embeddings |-> e.value]

\* runs tried: no chunk, one chunk, a full batch, a batch and one chunk,
\* MaxBatches batches and one chunk; the texts differ from chunk to chunk;
\* the ids of a run are new (uuid4), the case of an id met again is the
\* subject of the runs of IngestRun
MaxBatches == 2
MaxPrior == 1     \* a run starts on a store of at most MaxPrior chunks

RunSizes ==
    {0, 1, AddBatchSize, AddBatchSize + 1, MaxBatches * AddBatchSize + 1}

ChunkList(n, start) ==
    [i \in 1..n |->
        [page_content |-> TextList(n, start)[i],
         metadata |-> [type |-> "basic_info", source |-> "f"]]]

BuildFaults ==
    {[kind |-> k, batch |-> 0] : k \in {"import", "model"}} \cup {NoFault}
    \cup {[kind |-> "add", batch |-> j] : j \in 1..(MaxBatches + 1)}

StoredChunks(cl) ==
    IF HasKey(cl, DefaultCollection) THEN cl[DefaultCollection].chunks
    ELSE <<>>

NewIds(cl, n) == [i \in 1..n |-> Len(StoredChunks(cl)) + i]

BuildVectorDatabaseCall ==
    /\ op = "idle"
    /\ Len(StoredChunks(client)) <= MaxPrior
    /\ \E n \in RunSizes, start \in {1, 2}, f \in BuildFaults,
          mode \in AddModes :
          LET chs == ChunkList(n, start)
              ids == NewIds(client, n)
              r   == BuildRun(client, embedder_loaded, model_present, chs,
                              ids, mode, f)
          IN  /\ split_out' = chs
              /\ run_ids' = ids
              /\ build_ret' = r.ret
              /\ raised' = r.ret.raised
              /\ fault' = f.kind
              /\ fault_at' = f
              /\ embeddings' = r.embeddings
              /\ embedder_loaded' = r.loaded
              /\ client' = r.client
    /\ collection_name' = DefaultCollection
    /\ before' = client
    /\ op' = "build"
    /\ UNCHANGED <<collection, query, top_k, flt, fetched, results, text,
                   statsVars, loaderVars, texts, model_present, retriever,
                   grid, header_row_idx, failed, records, data_rows,
                   sheets_left, all_documents, split_in, load_dir,
                   dir_exists, byVars>>

ReturnBuild ==
    /\ op = "build"
    /\ op' = "idle"
    /\ fault' = "none"
    /\ raised' = FALSE
    /\ collection_name' = ""
    /\ run_ids' = <<>>
    /\ before' = <<>>
    /\ embeddings' = <<>>
    /\ split_out' = <<>>
    /\ build_ret' = NoReturn
    /\ fault_at' = NoFault
    /\ UNCHANGED <<collection, query, top_k, flt, fetched, results, text,
                   statsVars, loaderVars, texts, model_present,
                   embedder_loaded, client, retriever, grid, header_row_idx,
                   failed, records, data_rows, sheets_left, all_documents,
                   split_in, load_dir, dir_exists, byVars>>

NextBuild == BuildVectorDatabaseCall \/ ReturnBuild

SpecBuild == InitStore /\ [][NextBuild]_vars

----------------------------------------------------------------------------
(* Properties of a build run *)

\* the chunks of the store that carry an id of the last run, in store order
WrittenByRun ==
    SelectSeq(StoredChunks(client), LAMBDA c : c.id \in SeqToSet(run_ids))

\* C23: a build run over n chunks that succeeds writes n chunks whose
\* chunk_id values are 0..n-1 in chunk order, each with chunk_length the
\* length of its text and with the embedding of its own text, also across
\* the batches of 100.
C23_ChunksAligned ==
    (op = "build" /\ build_ret.ok)
        => LET w == WrittenByRun
           IN  /\ Len(w) = Len(split_out)
               /\ \A i \in 1..Len(w) :
                     /\ w[i].metadata.chunk_id = i - 1
                     /\ w[i].document = split_out[i].page_content
                     /\ w[i].metadata.chunk_length
                           = Len(split_out[i].page_content)
                     /\ w[i].embedding = EmbedQuery(w[i].document)
                     /\ w[i].id = run_ids[i]

\* a run of more than two batches over texts with different embeddings,
\* written behind the chunks of an earlier run
C23_Witness ==
    /\ op = "build"
    /\ build_ret.ok
    /\ Len(split_out) > 2 * AddBatchSize
    /\ Len(StoredChunks(before)) > 0
    /\ LET w == WrittenByRun
       IN  /\ w[AddBatchSize + 1].metadata.chunk_id = AddBatchSize
           /\ w[AddBatchSize + 1].embedding # w[AddBatchSize].embedding
           /\ w[AddBatchSize + 1].metadata.chunk_length
                 # w[AddBatchSize].metadata.chunk_length

----------------------------------------------------------------------------
(* Properties of the relevance score *)

\* the terms of a query: the maximal runs without whitespace of the
\* lower-cased query
Terms(q) ==
    LET lq == Lower(q)
    IN  {SubSeq(lq, a, b) : <<a, b>> \in
            {ab \in (1..Len(lq)) \X (1..Len(lq)) :
                /\ ab[1] <= ab[2]
                /\ \A p \in ab[1]..ab[2] : lq[p] \notin Whitespace
                /\ (ab[1] = 1 \/ lq[ab[1] - 1] \in Whitespace)
                /\ (ab[2] = Len(lq) \/ lq[ab[2] + 1] \in Whitespace)}}

\* the terms longer than 2 characters found in the lower-cased content
MatchedTerms(content, q) ==
    {k \in Terms(q) :
        /\ Len(k) > 2
        /\ \E a \in 1..(Len(content) - Len(k) + 1) :
              SubSeq(Lower(content), a, a + Len(k) - 1) = k}

\* C24: the relevance of every result is min(1.0, 0.5*s + keyword_score +
\* 0.2) with keyword_score = min(0.3, 0.3 * matched / total), total the
\* number of distinct query terms, matched the number of those longer than
\* 2 characters that occur in the lower-cased content, and keyword_score 0
\* for a query without terms.  Scores are numerators over
\* 10 * DistScale * max(total, 1).
C24_RelevanceFormula ==
    op = "search"
        => \A p \in 1..Len(results) :
              LET t  == Cardinality(Terms(query))
                  m  == Cardinality(MatchedTerms(results[p].content, query))
                  tt == IF t = 0 THEN 1 ELSE t
                  ks == IF t = 0 THEN 0
                        ELSE Min(3 * DistScale * tt, 3 * DistScale * m)
              IN  results[p].relevance
                     = Min(10 * DistScale * tt,
                           5 * tt * results[p].similarity + ks
                              + 2 * DistScale * tt)

\* a result whose content holds a two-character term of the query and a
\* longer one: only the longer one is counted
C24_Witness ==
    /\ op = "search"
    /\ \E p \in 1..Len(results) :
          /\ \E k \in Terms(query) :
                Len(k) <= 2 /\ IsSubstring(k, Lower(results[p].content))
          /\ Cardinality(MatchedTerms(results[p].content, query)) = 1
          /\ Cardinality(Terms(query)) = 2
          /\ results[p].relevance
                = 5 * 2 * results[p].similarity + 3 * DistScale
                     + 2 * DistScale * 2

----------------------------------------------------------------------------
(* retriever.py: search_by_zone, search_by_category, search_by_author,     *)
(* search_by_technique.  Each composes a query string and calls search.    *)

\* mutant: no search sets a filter
ByFilterNone(kind, arg) == NoFilter

\* filter_metadata handed to search
ByFilter(kind, arg) == IF kind = "zone" THEN ZoneEq(arg) ELSE NoFilter

\* the composed query string
ByQuery(kind, arg, q) ==
    CASE kind = "zone" -> Strip(<<arg, "zhan", "qu", " ">> \o q)
      [] kind = "category" -> Strip(arg \o <<" ">> \o q)
      [] kind = "author" -> <<"zuo", "zhe">> \o arg \o <<"de", "zuo", "pin">>
      [] kind = "technique" -> arg \o <<"ji", "shu">>

SearchByCall(coll, kind, arg, q, k, f, dist) ==
    SearchCall(coll, ByQuery(kind, arg, q), k, ByFilter(kind, arg), f, dist)

ByZones == {"A", "B", "C"}
ByQueries == { <<>>, <<"l", "e", "d">> }
ByCategories == { <<"a", "r", "t">>, <<" ">> }
ByAuthors == { <<"g", "u", "o">> }
ByTechniques == { <<"R", "F", "I", "D">>, <<"l", "e", "d">> }

\* one search_by_* call: the arguments and the value returned are recorded
SearchBy(kind, arg, q) ==
    /\ \E k \in 1..MaxTopK, f \in Faults :
       \E dist \in DistanceChoices(collection, f) :
          LET r == SearchByCall(collection, kind, arg, q, k, f, dist)
          IN  /\ top_k' = k
              /\ fault' = f
              /\ fetched' = r.fetched
              /\ results' = r.value
              /\ raised' = r.raised
    /\ op' = kind
    /\ by_arg' = arg
    /\ by_query' = q
    /\ query' = ByQuery(kind, arg, q)
    /\ flt' = ByFilter(kind, arg)
    /\ UNCHANGED <<text, collection, statsVars, loaderVars, embedVars,
                   storeVars, sheetVars, ingestVars>>

SearchByZone ==
    /\ op = "idle"
    /\ \E z \in ByZones, q \in ByQueries : SearchBy("zone", z, q)

SearchByCategory ==
    /\ op = "idle"
    /\ \E c \in ByCategories, q \in ByQueries : SearchBy("category", c, q)

SearchByAuthor ==
    /\ op = "idle"
    /\ \E a \in ByAuthors : SearchBy("author", a, <<>>)

SearchByTechnique ==
    /\ op = "idle"
    /\ \E t \in ByTechniques : SearchBy("technique", t, <<>>)

\* the caller drops the returned value
ReturnBy ==
    /\ op \in {"zone", "category", "author", "technique"}
    /\ op' = "idle"
    /\ query' = <<>>
    /\ top_k' = 1
    /\ flt' = NoFilter
    /\ fault' = "none"
    /\ fetched' = <<>>
    /\ results' = <<>>
    /\ raised' = FALSE
    /\ by_arg' = ""
    /\ by_query' = <<>>
    /\ UNCHANGED <<text, collection, statsVars, loaderVars, embedVars,
                   storeVars, sheetVars, ingestVars>>

NextBy ==
    \/ AddChunk
    \/ SearchByZone
    \/ SearchByCategory
    \/ SearchByAuthor
    \/ SearchByTechnique
    \/ ReturnBy

SpecBy == Init /\ [][NextBy]_vars

----------------------------------------------------------------------------
(* Properties of the attribute searches *)

ByKinds == {"zone", "category", "author", "technique"}

\* C25: search_by_category, search_by_author and search_by_technique hand
\* search no filter, so the store answers from the whole collection;
\* search_by_zone(z) hands it the filter zone = z, so every candidate and
\* every result has zone z; each returns what search makes of the
\* candidates for the composed query and the given top_k, and the empty
\* list when a step fails.
C25_AttributeSearches ==
    /\ op \in {"category", "author", "technique"}
          => /\ flt = NoFilter
             /\ fault = "none"
                   => Len(fetched)
                         = Min(Len(collection), Min(2 * top_k, MaxFetch))
    /\ op = "zone"
          => /\ flt = ZoneEq(by_arg)
             /\ \A p \in 1..Len(fetched) : fetched[p].metadata.zone = by_arg
             /\ \A p \in 1..Len(results) :
                   /\ results[p].zone = by_arg
                   /\ results[p].metadata.zone = by_arg
    /\ op \in ByKinds
          => /\ ~raised
             /\ query = (CASE op = "zone" ->
                                Strip(<<by_arg, "zhan", "qu", " ">> \o by_query)
                           [] op = "category" ->
                                Strip(by_arg \o <<" ">> \o by_query)
                           [] op = "author" ->
                                <<"zuo", "zhe">> \o by_arg
                                   \o <<"de", "zuo", "pin">>
                           [] op = "technique" -> by_arg \o <<"ji", "shu">>)
             /\ results = (IF fault = "none"
                           THEN ProcessResults(fetched, query, top_k)
                           ELSE <<>>)

\* a zone search on a collection holding both zones: results, all of the
\* zone asked for, fewer than top_k because the other chunks are left out
C25_Witness ==
    /\ op = "zone"
    /\ \E i \in 1..Len(collection) : collection[i].metadata.zone # by_arg
    /\ results # <<>>
    /\ Len(results) < top_k
    /\ Len(collection) >= top_k
    /\ \A p \in 1..Len(results) : results[p].zone = by_arg

----------------------------------------------------------------------------
(* Properties of the rank field *)

\* C26 as stated: in the list search returns, the rank field of the result
\* at position p is p and is the rank its explanation names, also when the
\* sort by relevance has reordered the candidates.
C26_Original ==
    op = "search"
        => \A p \in 1..Len(results) :
              /\ results[p].rank = p
              /\ results[p].explanation[2] = ToString(results[p].rank)

----------------------------------------------------------------------------
(* search on collections larger than the candidate fetch.  The collection  *)
(* holds up to MaxWideChunks chunks from the start; the distances follow   *)
(* one of two patterns instead of every assignment.                        *)

MaxWideChunks == 22
MaxWideTopK == 21

DistPattern(n, stride) == [i \in 1..n |-> (i * stride) % (2 * DistScale + 1)]

InitWide ==
    /\ collection \in {[i \in 1..n |-> Corpus(i)] : n \in 0..MaxWideChunks}
    /\ SearchInit
    /\ StatsInit
    /\ LoaderInit
    /\ EmbedInit
    /\ StoreInit
    /\ model_present = TRUE
    /\ SheetInit
    /\ IngestInit

SearchWide ==
    /\ op = "idle"
    /\ \E q \in Queries, k \in 1..MaxWideTopK, where \in Filters,
          f \in Faults, stride \in {1, 2} :
          LET r == SearchCall(collection, q, k, where, f,
                              DistPattern(Len(collection), stride))
          IN  /\ query' = q
              /\ top_k' = k
              /\ flt' = where
              /\ fault' = f
              /\ fetched' = r.fetched
              /\ results' = r.value
              /\ raised' = r.raised
    /\ op' = "search"
    /\ UNCHANGED <<text, collection, statsVars, loaderVars, pipelineVars>>

NextWide == SearchWide

SpecWide == InitWide /\ [][NextWide]_vars

----------------------------------------------------------------------------
(* Properties of the number of results *)

\* the chunks of the collection the filter lets through
MatchingCount ==
    Cardinality({i \in 1..Len(collection) : Matches(collection[i], flt)})

\* C27 as stated: for every top_k >= 1, when no step fails and N chunks
\* match the filter, search returns exactly min(top_k, N) results.
C27_Original ==
    (op = "search" /\ fault = "none")
        => Len(results) = Min(top_k, MatchingCount)

\* C27: for every top_k >= 1, when no step fails and N chunks match the
\* filter, search returns exactly min(top_k, N, 20) results: the candidate
\* fetch of min(2 * top_k, 20) caps the list at 20.
C27_AtMostFetchLimit ==
    (op = "search" /\ fault = "none")
        => Len(results) = Min(top_k, Min(MatchingCount, MaxFetch))

\* a search for 21 results on 21 or more matching chunks that returns 20
C27_Witness ==
    /\ op = "search"
    /\ fault = "none"
    /\ top_k > MaxFetch
    /\ MatchingCount >= top_k
    /\ Len(results) = MaxFetch

----------------------------------------------------------------------------
(* Properties of a failed statistics query *)

\* C28: when the store query inside get_collection_statistics fails, the
\* call returns a result with an error field and leaves the cached
\* statistics and their timestamp as they were; the cache never holds an
\* error result; a later unforced call less than 300 seconds after the
\* cached result was stored returns that result without a query, and a
\* call made while nothing is cached queries the store.
C28_ErrorNotCached ==
    /\ [][ (op = "idle" /\ op' = "stats" /\ fault' = "query")
              => /\ stats_ret'.kind = "error"
                 /\ queried'
                 /\ stats_cache' = stats_cache
                 /\ stats_time' = stats_time ]_vars
    /\ [](stats_cache.kind # "error")
    /\ []( (op = "stats" /\ ~force /\ cache_age # <<>>
               /\ cache_age[1] < CacheTTL)
             => /\ ~queried
                /\ stats_ret = stats_cache
                /\ stats_ret.kind = "stats" )
    /\ [][ (op = "idle" /\ op' = "stats" /\ stats_cache = NoStats)
              => queried' ]_vars

\* a forced call fails one second after a result was cached: the error is
\* returned and the cached result stays
C28_Witness ==
    /\ op = "stats"
    /\ fault = "query"
    /\ force
    /\ cache_age = <<1>>
    /\ stats_ret.kind = "error"
    /\ stats_cache.kind = "stats"
    /\ stats_time = <<now - 1>>
    /\ Len(collection) > 0

----------------------------------------------------------------------------
(* Properties of the outcome of a build run *)

\* number of the batches of the last run
BatchCount == (Len(run_ids) + AddBatchSize - 1) \div AddBatchSize

\* the chunks the last run appended to the default collection
AddedByRun ==
    SubSeq(StoredChunks(client), Len(StoredChunks(before)) + 1,
           Len(StoredChunks(client)))

\* the batch of the last run the store refused (0: none); the run reaches
\* the store when it has embeddings
RefusedBatch ==
    IF fault_at.kind = "add" /\ embeddings # <<>>
       /\ fault_at.batch <= BatchCount
    THEN fault_at.batch ELSE 0

\* C29: build_vector_database never raises: a failure is returned as
\* (False, stats with status 'error').  The chunks are written in order in
\* batches of at most 100 without rollback: a run whose batch j is refused
\* leaves the chunks of the batches before j in the store, behind what the
\* store held, and a run that fails earlier leaves the store as it was.  A
\* successful run makes the collection larger by the number of chunks.
C29_BuildOutcome ==
    op = "build"
        => /\ ~raised
           /\ ~build_ret.raised
           /\ build_ret.ok <=> build_ret.status = "success"
           /\ ~build_ret.ok => build_ret.status = "error"
           /\ SubSeq(StoredChunks(client), 1, Len(StoredChunks(before)))
                 = StoredChunks(before)
           /\ \A i \in 1..Len(AddedByRun) : AddedByRun[i].id = run_ids[i]
           /\ build_ret.ok => Len(AddedByRun) = Len(split_out)
           /\ RefusedBatch > 0
                 => /\ ~build_ret.ok
                    /\ Len(AddedByRun) = (RefusedBatch - 1) * AddBatchSize
           /\ (~build_ret.ok /\ RefusedBatch = 0) => AddedByRun = <<>>

\* a run of three batches whose third batch is refused: the call returns
\* an error and the two batches before it stay in the store
C29_Witness ==
    /\ op = "build"
    /\ ~build_ret.ok
    /\ build_ret.status = "error"
    /\ RefusedBatch = 3
    /\ BatchCount = 3
    /\ Len(AddedByRun) = 2 * AddBatchSize
    /\ AddedByRun[2 * AddBatchSize].metadata.chunk_id = 2 * AddBatchSize - 1

----------------------------------------------------------------------------
(* ingest.py: load_documents on a data directory.  A directory is a record *)
(* [exists, workbook, other, stray]: whether it exists, whether it holds   *)
(* an Excel workbook, the documents its PDF, text and Markdown files give, *)
(* and whether it holds a file of no known format.                         *)

DirIsEmpty(d) == ~d.workbook /\ d.other = <<>> /\ ~d.stray

\* mutant: the other formats are loaded next to the Excel documents
LoadDocumentsDirAllFormats(d, exhibition_docs, available) ==
    IF ~d.exists \/ DirIsEmpty(d) THEN <<>>
    ELSE LET excel  == IF available /\ d.workbook THEN exhibition_docs
                       ELSE <<>>
             loaded == IF excel \o d.other # <<>> THEN excel \o d.other
                       ELSE CreateTestDocuments
         IN  loaded \o CreateSystemSummary(loaded, "data/raw_docs")

\* load_documents(data_dir): exhibition_docs is what the Excel loader makes
\* of the workbook, available is EXHIBITION_LOADER_AVAILABLE
LoadDocumentsDir(d, exhibition_docs, available) ==
    IF ~d.exists \/ DirIsEmpty(d) THEN <<>>
    ELSE LET excel  == IF available /\ d.workbook THEN exhibition_docs
                       ELSE <<>>
             first  == IF excel # <<>> THEN excel ELSE d.other
             loaded == IF first # <<>> THEN first ELSE CreateTestDocuments
         IN  IF loaded # <<>>
             THEN loaded \o CreateSystemSummary(loaded, "data/raw_docs")
             ELSE loaded

TextFileDoc ==
    [page_content |-> <<"n", "o", "t", "e", "s">>,
     metadata |-> [source |-> "notes.txt"]]

Directories ==
    [exists : BOOLEAN, workbook : BOOLEAN, other : {<<>>, <<TextFileDoc>>},
     stray : BOOLEAN]

\* load_documents(data_dir) on a directory whose workbook, if any, holds the
\* record item_info
LoadFromDirectory ==
    /\ op = "synth"
    /\ \E d \in Directories, available \in BOOLEAN :
          /\ load_dir' = d
          /\ documents' = LoadDocumentsDir(d, item_docs, available)
          /\ fault' = (IF available THEN "none" ELSE "import")
    /\ dir_exists' = TRUE
    /\ op' = "loaddir"
    /\ UNCHANGED <<collection, query, top_k, flt, fetched, results, text,
                   raised, statsVars, sheet_name, header_row, row_idx,
                   row_data, item_info, item_docs, embedVars, storeVars,
                   sheetVars, split_in, split_out, build_ret, byVars>>

NextLoadDir == CreateDocuments \/ LoadFromDirectory

SpecLoadDir == InitSynth /\ [][NextLoadDir]_vars

----------------------------------------------------------------------------
(* Properties of load_documents *)

\* the documents load_documents starts from
FirstSource ==
    IF fault = "none" /\ load_dir.workbook /\ item_docs # <<>> THEN item_docs
    ELSE IF load_dir.other # <<>> THEN load_dir.other
    ELSE CreateTestDocuments

\* C30: on an existing directory that holds a file, load_documents returns
\* the Excel documents if there are any, else the documents of the other
\* formats if there are any, else the two test documents, followed by the
\* system_summary and the user_guide document, the summary's
\* total_documents being the number of documents before it; the list is
\* never empty.  On a missing or empty directory it returns the empty list,
\* and the directory exists afterwards.
C30_LoadDocuments ==
    op = "loaddir"
        => /\ dir_exists
           /\ (~load_dir.exists \/ DirIsEmpty(load_dir)) => documents = <<>>
           /\ (load_dir.exists /\ ~DirIsEmpty(load_dir))
                 => LET n == Len(documents)
                    IN  /\ n >= 3
                        /\ SubSeq(documents, 1, n - 2) = FirstSource
                        /\ documents[n - 1].metadata.type = "system_summary"
                        /\ documents[n - 1].metadata.total_documents = n - 2
                        /\ documents[n].metadata.type = "user_guide"
                        /\ \A i \in 1..(n - 2) :
                              DocType(documents[i])
                                 \notin {"system_summary", "user_guide"}

\* a directory with a workbook that gives no document and with a text file:
\* the text document, then the two summary documents
C30_Witness ==
    /\ op = "loaddir"
    /\ load_dir.exists
    /\ load_dir.workbook
    /\ fault = "none"
    /\ item_docs = <<>>
    /\ load_dir.other # <<>>
    /\ Len(documents) = 3
    /\ documents[1] = TextFileDoc
    /\ documents[2].metadata.total_documents = 1

============================================================================
